---------------------------- MODULE Spec2Model ----------------------------
(***************************************************************************)
(* A model of the aviation crash analytics pages:                          *)
(*   - src/src/script.js (lines 254-568): the map page, its data load,     *)
(*     its debounced filter and its analytics;                             *)
(*   - src/dashboard.js and src/unnamed/part_000: the AviationDashboard    *)
(*     class, its load, filter, normalizer and anomaly chart.              *)
(*                                                                         *)
(* JavaScript values are represented as follows.  An object is a TLA+      *)
(* record whose DOMAIN is the set of the properties it has, so the empty   *)
(* object is the empty function.  A string that the code inspects          *)
(* (toLowerCase, includes, unary plus, parseInt) is a sequence of          *)
(* one-character strings; a string that is only compared is a TLA+ string. *)
(* A number that can be NaN is a record [nan, v].                          *)
(***************************************************************************)
EXTENDS Integers, Sequences, FiniteSets, TLC

VARIABLES
    \* ---- src/src/script.js ----
    crashData,      \* let crashData = []
    loadPc,         \* position of loadData(): "fetching", "done", "failed"
    statsError,     \* the #stats element shows the red error message
    yearMin,        \* value of the #yearMin input
    yearMax,        \* value of the #yearMax input
    typeFilter,     \* value of the #typeFilter select
    regionFilter,   \* value of the #regionFilter input
    fatalFilter,    \* value of the #fatalFilter input
    filterTimeout,  \* let filterTimeout = null (0 models null)
    timers,         \* ids of the timers the event loop still has to fire
    nextTimer,      \* the id the next setTimeout returns
    shown,          \* the array last handed to renderMarkers/updateAnalytics/updateTimeline
    shownBy,        \* who handed it: "none", "load", "apply", "reset"
    avgText,        \* textContent of the #avg element
    nApply,         \* history: number of executions of applyFilters
    nBursts,        \* history: number of bursts of applyFiltersDebounced calls
    \* ---- src/dashboard.js, src/unnamed/part_000 ----
    data,           \* this.data
    filteredData,   \* this.filteredData
    currentTab,     \* this.currentTab
    initPc,         \* position of init(): "loading", "ready"
    loadFailed,     \* loadData() went through its catch branch
    filtersApplied, \* history: applyFilters has run since the load
    everNarrowed,   \* history: some applyFilters call left out a record
    yearFilter,     \* value of the #yearFilter range input
    dRegion,        \* value of the #regionFilter select of the dashboard
    dCrashType,     \* value of the #crashTypeFilter select
    \* ---- normalizeCrashData applied twice (part_000) ----
    rawCrash,       \* the raw record
    norm1,          \* normalizeCrashData(rawCrash)
    norm2,          \* normalizeCrashData(norm1)
    normPc,         \* "raw", "once", "twice"
    \* ---- renderAnomalyChart (dashboard.js) ----
    anomPc,         \* "start", "rendered", "threw"
    chartYears,     \* const years
    chartCounts,    \* const counts
    avgCrashes,     \* const avgCrashes
    stdDev,         \* const stdDev
    anomalies,      \* const anomalies
    \* ---- the rate expressions of the dashboard charts ----
    rateFatalities, \* const totalFatalities
    rateAboard,     \* const totalAboard
    ratePc,         \* which expression was evaluated: "start" or its chart
    rateValue,      \* the value of the expression
    \* ---- renderSafetyRankingsChart (dashboard.js) ----
    safetyPc,       \* "start", "rendered"
    safetyScores,   \* const safetyScores, after the sort
    topSafety,      \* const topSafety
    \* ---- src/unnamed/part_005 ----
    AVIATION_DATA,  \* let AVIATION_DATA
    riskPc,         \* "start", "rendered"
    rankedOperators, \* let rankedOperators of renderOperatorRiskRanking
    \* ---- renderPredictiveTrendChart of dashboard.js ----
    trendPc,        \* "start", "rendered", "threw"
    trendYears,     \* const years
    trendCounts,    \* const counts
    trendSlope,     \* const slope
    futureYears,    \* const futureYears
    futureCounts,   \* const futureCounts
    \* ---- renderAIInsights and generateAIInsights of dashboard.js ----
    insightRaw,     \* the array data/crashes.json delivered
    insightPc,      \* "start", "returned", "threw"
    insights,       \* const insights of renderAIInsights
    aiInsights,     \* the cards in the container #aiInsights, by title
    survivalRate,   \* const survivalRate
    deadliestCrash, \* const deadliestCrash
    \* ---- groupBy and countBy of dashboard.js ----
    groupInput,     \* the argument array
    groupKey,       \* the argument key
    groupPc,        \* "start", "grouped", "counted"
    groupResult,    \* what groupBy returned
    countResult,    \* what countBy returned
    \* ---- the filters applied to a record set and to their own result ----
    refPc,          \* "script" or "dash", then "... once", "... twice"
    refOnce,        \* filter(S, cfg)
    refTwice,       \* filter(filter(S, cfg), cfg)
    \* ---- renderMarkers, updateAnalytics, updateTimeline of script.js ----
    markPc,         \* "start", "rendered"
    markerLayer,    \* the records with a marker in the layer group markers
    countText,      \* the text of #count
    fatalitiesText, \* the text of #fatalities
    decadeChart,    \* const decade of updateAnalytics
    timelineChart,  \* const yearly of updateTimeline
    \* ---- renderDataGrid of src/unnamed/part_005 ----
    gridPc,         \* "loaded", "rendered"
    aviationLoaded, \* the array loadCrashData returned, as it was then
    displayedData,  \* const displayedData
    \* ---- history of the clicks on #resetFilter of script.js ----
    timerAtReset,   \* nextTimer at the last click on reset, 0 before any
    \* ---- the export listener of src/unnamed/part_003 ----
    exportDialog,   \* clicks on #exportData, the array of the last showExportDialog
                    \* call and, as history, the array on display at that click
    \* ---- what the dashboard last drew from (dashboard.js) ----
    headerFrom,     \* history: what updateHeaderStats last computed the header from
    plots,          \* history: by container, what was last drawn into it
    nTabEvents,     \* history: number of tab clicks and filter changes since the load
    \* ---- fetchWeather of script.js ----
    weatherCache,   \* const weatherCache = new Map()
    popupOpen,      \* id of the marker whose popup is open, "none" for none
    weatherEl,      \* innerHTML of the elements weather-<id>
    inFlight,       \* the fetchWeather calls awaiting their response
    requests,       \* history: number of fetch calls made
    weatherLast     \* history: the last step of fetchWeather and the state before it

scriptVars == <<crashData, loadPc, statsError, yearMin, yearMax, typeFilter,
                regionFilter, fatalFilter, filterTimeout, timers, nextTimer,
                shown, shownBy, avgText, nApply, nBursts>>
dashVars   == <<data, filteredData, currentTab, initPc, loadFailed, filtersApplied, everNarrowed,
                yearFilter, dRegion, dCrashType>>
normVars   == <<rawCrash, norm1, norm2, normPc>>
anomVars   == <<anomPc, chartYears, chartCounts, avgCrashes, stdDev, anomalies>>
rateVars   == <<rateFatalities, rateAboard, ratePc, rateValue>>
safetyVars == <<safetyPc, safetyScores, topSafety>>
riskVars   == <<AVIATION_DATA, riskPc, rankedOperators>>
trendVars  == <<trendPc, trendYears, trendCounts, trendSlope, futureYears, futureCounts>>
insightVars == <<insightRaw, insightPc, insights, aiInsights, survivalRate, deadliestCrash>>
groupVars  == <<groupInput, groupKey, groupPc, groupResult, countResult>>
refVars    == <<refPc, refOnce, refTwice>>
markVars   == <<markPc, markerLayer, countText, fatalitiesText, decadeChart, timelineChart>>
gridVars   == <<gridPc, aviationLoaded, displayedData>>
tabVars    == <<headerFrom, plots, nTabEvents>>
weatherVars == <<weatherCache, popupOpen, weatherEl, inFlight, requests, weatherLast>>
tailVars   == <<exportDialog, tabVars, weatherVars>>
lateVars   == <<groupVars, refVars, markVars, gridVars, timerAtReset, tailVars>>
chartVars  == <<rateVars, safetyVars, riskVars, trendVars, insightVars, lateVars>>
vars       == <<scriptVars, dashVars, normVars, anomVars, chartVars>>

-----------------------------------------------------------------------------
(* Bounds of the model *)

\* longest raw dataset the fetch delivers
MaxRecords == 2
\* number of tab clicks and filter changes on the dashboard in a run
MaxTabEvents == 3
\* number of applyFiltersDebounced calls in a run
MaxClicks == 3
\* largest seed of the pseudo-random stream behind Math.random on the dashboard
MaxSeed == 1
\* largest value a single Math.random draw of the normalizer is followed to
MaxDraw == 1
\* longest filtered set handed to a chart on its own
MaxChartRecords == 4
\* number of years createSampleData is followed for
MaxSampleYears == 2
\* largest total of fatalities or of persons aboard a rate is computed from
MaxTotal == 9
\* longest filtered set handed to the safety ranking
MaxScoreRecords == 3
\* longest raw dataset handed to the risk ranking
MaxRiskRecords == 3
\* longest raw dataset handed to the insights
MaxInsightRecords == 3
\* longest array handed to groupBy and countBy on their own
MaxGroupRecords == 3
\* longest raw dataset handed to the data grid
MaxGridRecords == 3

-----------------------------------------------------------------------------
(* JavaScript helpers *)

Min2(a, b) == IF a <= b THEN a ELSE b

\* all sequences over S of length 0..n
SeqsUpTo(S, n) == UNION { [1..k -> S] : k \in 0..n }

\* { ...base, ...over }: object spread, later properties win
Spread(base, over) ==
    [f \in (DOMAIN base) \cup (DOMAIN over) |->
        IF f \in DOMAIN over THEN over[f] ELSE base[f]]

Has(obj, f) == f \in DOMAIN obj

Digits == {"0", "1", "2", "3", "4", "5", "6", "7", "8", "9"}

DigitVal(c) ==
    CASE c = "0" -> 0 [] c = "1" -> 1 [] c = "2" -> 2 [] c = "3" -> 3
      [] c = "4" -> 4 [] c = "5" -> 5 [] c = "6" -> 6 [] c = "7" -> 7
      [] c = "8" -> 8 [] c = "9" -> 9

RECURSIVE DecimalValue(_)
DecimalValue(s) ==
    IF s = <<>> THEN 0
    ELSE 10 * DecimalValue(SubSeq(s, 1, Len(s) - 1)) + DigitVal(s[Len(s)])

\* +s for the text of an input: "" is 0, a numeral is its value, else NaN
IsNumeral(s) == \A i \in 1..Len(s) : s[i] \in Digits

\* (+s || d): d when +s is 0 or NaN
UnaryPlusOr(s, d) ==
    IF IsNumeral(s) /\ DecimalValue(s) # 0 THEN DecimalValue(s) ELSE d

LowerChar(c) ==
    CASE c = "A" -> "a" [] c = "K" -> "k" [] c = "S" -> "s" [] c = "U" -> "u"
      [] OTHER -> c

\* String.prototype.toLowerCase
toLowerCase(s) == [i \in 1..Len(s) |-> LowerChar(s[i])]

\* String.prototype.includes
includes(s, sub) ==
    \E i \in 0..(Len(s) - Len(sub)) : SubSeq(s, i + 1, i + Len(sub)) = sub

\* Array.prototype.reduce((s, d) => s + d[f], 0)
RECURSIVE sumField(_, _)
sumField(arr, f) ==
    IF arr = <<>> THEN 0 ELSE arr[1][f] + sumField(Tail(arr), f)

\* a number that may be NaN
NaN == [nan |-> TRUE, v |-> 0]
Num(n) == [nan |-> FALSE, v |-> n]

-----------------------------------------------------------------------------
(* src/src/script.js, lines 254-568: the map page *)

Unknown == <<"U", "n", "k", "n", "o", "w", "n">>
USA == <<"U", "S", "A">>
UK == <<"U", "K">>

\* raw records of data/crashes.json; any property may be missing
ScriptRawRecords ==
    { [Year |-> 2000, Fatalities |-> 10, Country |-> USA, Type |-> "Commercial",
       Location |-> "New York", Latitude |-> 40, Longitude |-> -74],
      [Year |-> 1999, Fatalities |-> 0, Country |-> UK, Type |-> "Cargo",
       Latitude |-> 51, Longitude |-> 0],
      <<>> }

ScriptRawDatasets == SeqsUpTo(ScriptRawRecords, MaxRecords)

\* the body of the map callback of normalizeCrashData
normalizeCrash(c) ==
    Spread(c,
      [ Year       |-> IF Has(c, "Year") THEN c.Year ELSE 0,
        Fatalities |-> IF Has(c, "Fatalities") THEN c.Fatalities ELSE 0,
        Latitude   |-> IF Has(c, "Latitude") THEN Num(c.Latitude) ELSE NaN,
        Longitude  |-> IF Has(c, "Longitude") THEN Num(c.Longitude) ELSE NaN,
        Country    |-> IF Has(c, "Country") /\ c.Country # <<>>
                       THEN c.Country ELSE Unknown,
        Type       |-> IF Has(c, "Type") /\ c.Type # "" THEN c.Type ELSE "Unknown",
        Location   |-> IF Has(c, "Location") /\ c.Location # ""
                       THEN c.Location ELSE "Unknown" ])

normalizeCrashData(d) == [i \in 1..Len(d) |-> normalizeCrash(d[i])]

\* updateAnalytics: the text of #avg; toFixed(1) keeps one decimal, rounded
updateAnalyticsAvg(d) ==
    LET totalFatalities == sumField(d, "Fatalities")
    IN  IF Len(d) # 0
        THEN [fixed |-> TRUE,
              tenths |-> (20 * totalFatalities + Len(d)) \div (2 * Len(d))]
        ELSE [fixed |-> FALSE, tenths |-> 0]

\* renderMarkers(d); updateAnalytics(d); updateTimeline(d)
RenderAll(d) ==
    /\ shown' = d
    /\ avgText' = updateAnalyticsAvg(d)

\* the predicate of crashData.filter in applyFilters
applyFiltersKeeps(c, minY, maxY, type, region, minF) ==
    /\ c.Year >= minY
    /\ c.Year <= maxY
    /\ (type = "All" \/ c.Type = type)
    /\ (region = <<>> \/ includes(toLowerCase(c.Country), region))
    /\ c.Fatalities >= minF

\* const filtered of applyFilters
applyFiltersFiltered ==
    LET minY   == UnaryPlusOr(yearMin, 0)
        maxY   == UnaryPlusOr(yearMax, 9999)
        type   == typeFilter
        region == toLowerCase(regionFilter)
        minF   == UnaryPlusOr(fatalFilter, 0)
    IN  \* crashData.filter: the records the callback accepts, in index order
        SelectSeq(crashData,
                  LAMBDA c : applyFiltersKeeps(c, minY, maxY, type, region, minF))

applyFilters ==
    /\ RenderAll(applyFiltersFiltered)
    /\ shownBy' = "apply"
    /\ nApply' = nApply + 1
    /\ UNCHANGED <<crashData, yearMin, yearMax, typeFilter, regionFilter,
                   fatalFilter>>

\* a debounce that forgets to cancel the superseded timer
clearTimeoutForgotten(pending, id) == pending

\* clearTimeout(id): the timer, if still pending, is dropped
clearTimeout(pending, id) == pending \ {id}

\* a click on #applyFilter: applyFiltersDebounced
applyFiltersDebounced ==
    /\ nextTimer <= MaxClicks
    /\ timers' = clearTimeout(timers, filterTimeout) \cup {nextTimer}
    /\ filterTimeout' = nextTimer
    /\ nextTimer' = nextTimer + 1
    /\ nBursts' = IF timers = {} THEN nBursts + 1 ELSE nBursts
    /\ UNCHANGED <<crashData, loadPc, statsError, yearMin, yearMax, typeFilter,
                   regionFilter, fatalFilter, shown, shownBy, avgText, nApply>>

\* the event loop runs the callback of a pending timer
TimerFires ==
    /\ \E t \in timers : timers' = timers \ {t}
    /\ applyFilters
    /\ UNCHANGED <<loadPc, statsError, filterTimeout, nextTimer, nBursts>>

\* a click on #resetFilter
resetFilterClick ==
    /\ RenderAll(crashData)
    /\ shownBy' = "reset"
    /\ UNCHANGED <<crashData, loadPc, statsError, yearMin, yearMax, typeFilter,
                   regionFilter, fatalFilter, filterTimeout, timers, nextTimer,
                   nApply, nBursts>>

\* loadData: the fetch resolved with an OK response and a JSON array
loadDataOk ==
    /\ loadPc = "fetching"
    /\ \E raw \in ScriptRawDatasets :
          /\ crashData' = normalizeCrashData(raw)
          /\ RenderAll(normalizeCrashData(raw))
    /\ shownBy' = "load"
    /\ loadPc' = "done"
    /\ UNCHANGED <<statsError, yearMin, yearMax, typeFilter, regionFilter,
                   fatalFilter, filterTimeout, timers, nextTimer, nApply, nBursts>>

\* loadData: fetch rejected, !res.ok, or res.json() rejected: the catch branch
loadDataFail ==
    /\ loadPc = "fetching"
    /\ statsError' = TRUE
    /\ loadPc' = "failed"
    /\ UNCHANGED <<crashData, yearMin, yearMax, typeFilter, regionFilter,
                   fatalFilter, filterTimeout, timers, nextTimer, shown, shownBy,
                   avgText, nApply, nBursts>>

YearInputs == { <<>>, <<"0">>, <<"1", "9", "9", "9">>, <<"2", "0", "0", "0">> }
TypeInputs == { "All", "Commercial", "Cargo" }
RegionInputs == { <<>>, <<"u", "s">>, <<"U", "K">> }
FatalInputs == { <<>>, <<"0">>, <<"5">> }

\* the filter settings a user of the page types in while it runs
TypedConfigs ==
    { [yMin |-> <<>>, yMax |-> <<>>, type |-> "All", region |-> <<>>, fatal |-> <<>>],
      [yMin |-> <<"2", "0", "0", "0">>, yMax |-> <<>>, type |-> "All",
       region |-> <<>>, fatal |-> <<>>],
      [yMin |-> <<>>, yMax |-> <<>>, type |-> "All", region |-> <<"U", "K">>,
       fatal |-> <<"5">>] }

\* the user edits the filter inputs
EditInputs ==
    /\ \E cfg \in TypedConfigs :
          /\ <<yearMin, yearMax, typeFilter, regionFilter, fatalFilter>>
                # <<cfg.yMin, cfg.yMax, cfg.type, cfg.region, cfg.fatal>>
          /\ yearMin' = cfg.yMin
          /\ yearMax' = cfg.yMax
          /\ typeFilter' = cfg.type
          /\ regionFilter' = cfg.region
          /\ fatalFilter' = cfg.fatal
    /\ UNCHANGED <<crashData, loadPc, statsError, filterTimeout, timers, nextTimer,
                   shown, shownBy, avgText, nApply, nBursts>>

\* the page right after the script ran: listeners registered, fetch pending
ScriptInit ==
    /\ crashData = <<>>
    /\ loadPc = "fetching"
    /\ statsError = FALSE
    /\ yearMin = <<>> /\ yearMax = <<>> /\ typeFilter = "All"
    /\ regionFilter = <<>> /\ fatalFilter = <<>>
    /\ filterTimeout = 0 /\ timers = {} /\ nextTimer = 1
    /\ shown = <<>> /\ shownBy = "none"
    /\ avgText = [fixed |-> FALSE, tenths |-> 0]
    /\ nApply = 0 /\ nBursts = 0

\* the page with a loaded dataset and the filter inputs filled in
FilterInit ==
    /\ crashData \in { normalizeCrashData(raw) : raw \in ScriptRawDatasets }
    /\ loadPc = "done"
    /\ statsError = FALSE
    /\ yearMin \in YearInputs /\ yearMax \in YearInputs
    /\ typeFilter \in TypeInputs
    /\ regionFilter \in RegionInputs /\ fatalFilter \in FatalInputs
    /\ filterTimeout = 0 /\ timers = {} /\ nextTimer = 1
    /\ shown = crashData /\ shownBy = "load"
    /\ avgText = updateAnalyticsAvg(crashData)
    /\ nApply = 0 /\ nBursts = 0

\* applyFilters called once on that page
FilterStep ==
    /\ shownBy = "load"
    /\ applyFilters
    /\ UNCHANGED <<loadPc, statsError, filterTimeout, timers, nextTimer, nBursts>>

-----------------------------------------------------------------------------
(* src/dashboard.js and src/unnamed/part_000: class AviationDashboard *)

\* a property set to undefined reads like a missing one: it is left out
Without(obj, fs) == [f \in (DOMAIN obj) \ fs |-> obj[f]]

\* new Date(year, month, day); years 0..99 mean 1900..1999
MkDate(y, m, d) ==
    [nan |-> FALSE, y |-> IF y >= 0 /\ y <= 99 THEN 1900 + y ELSE y, m |-> m, d |-> d]
InvalidDate == [nan |-> TRUE, y |-> 0, m |-> 0, d |-> 0]

\* s.split(",")[0]
RECURSIVE splitFirst(_)
splitFirst(s) ==
    IF s = <<>> \/ Head(s) = "," THEN <<>>
    ELSE <<Head(s)>> \o splitFirst(Tail(s))

getSeason(year, month) ==
    IF month >= 12 \/ month <= 2 THEN "Winter"
    ELSE IF month >= 3 /\ month <= 5 THEN "Spring"
    ELSE IF month >= 6 /\ month <= 8 THEN "Summer"
    ELSE "Fall"

\* what the caller of a function that threw gets
TypeError == [threw |-> "TypeError"]
Threw(r) == Has(r, "threw")

\* normalizeCrashData(crash); rA and rG are the values of the two
\* Math.floor(Math.random() * n) draws, in the order they are made
AD_normalizeCrashData(crash, rA, rG) ==
    IF ~Has(crash, "Location") THEN TypeError   \* undefined.split
    ELSE
      LET hasYear == Has(crash, "Year")
          undef == (IF hasYear THEN {} ELSE {"year"})
                     \cup (IF Has(crash, "Latitude") THEN {} ELSE {"latitude"})
                     \cup (IF Has(crash, "Longitude") THEN {} ELSE {"longitude"})
          over ==
            [ Date        |-> IF hasYear THEN MkDate(crash.Year, 0, 1) ELSE InvalidDate,
              Operator    |-> IF splitFirst(crash.Location) # <<>>
                              THEN splitFirst(crash.Location) ELSE Unknown,
              Type        |-> IF Has(crash, "Type") /\ crash.Type # ""
                              THEN crash.Type ELSE "Unknown",
              Aboard      |-> IF Has(crash, "Fatalities") /\ crash.Fatalities > 0
                              THEN crash.Fatalities + rA ELSE 50,
              Fatalities  |-> IF Has(crash, "Fatalities") THEN crash.Fatalities ELSE 0,
              Ground      |-> rG,
              Summary     |-> [loc |-> crash.Location,
                               year |-> IF hasYear THEN Num(crash.Year) ELSE NaN],
              year        |-> IF hasYear THEN crash.Year ELSE 0,
              month       |-> 1,
              month_name  |-> "Jan",
              day_of_week |-> 0,
              day_name    |-> "Monday",
              season      |-> getSeason(IF hasYear THEN crash.Year ELSE 0, 1),
              decade      |-> IF hasYear THEN Num((crash.Year \div 10) * 10) ELSE NaN,
              latitude    |-> IF Has(crash, "Latitude") THEN crash.Latitude ELSE 0,
              longitude   |-> IF Has(crash, "Longitude") THEN crash.Longitude ELSE 0 ]
      IN  Without(Spread(crash, over), undef)


\* the k-th value of Math.floor(Math.random() * n) of a page load whose
\* pseudo-random stream has the given seed
Rand(seed, k, n) == (seed * (k * k + 3 * k + 1)) % n

SampleLocations ==
    << [loc |-> <<"N", "e", "w", " ", "Y", "o", "r", "k", ",", " ", "U", "S", "A">>,
        lat |-> 407128, lng |-> -740060, country |-> "USA"],
       [loc |-> <<"L", "o", "n", "d", "o", "n", ",", " ", "U", "K">>,
        lat |-> 515072, lng |-> -1276, country |-> "UK"],
       [loc |-> <<"T", "o", "k", "y", "o", ",", " ", "J", "a", "p", "a", "n">>,
        lat |-> 356762, lng |-> 1396503, country |-> "Japan"],
       [loc |-> <<"P", "a", "r", "i", "s", ",", " ", "F", "r", "a", "n", "c", "e">>,
        lat |-> 488566, lng |-> 23522, country |-> "France"],
       [loc |-> <<"S", "y", "d", "n", "e", "y", ",", " ", "A", "u", "s", "t", "r", "a", "l", "i", "a">>,
        lat |-> -338688, lng |-> 1512093, country |-> "Australia"] >>

SampleTypes == <<"Commercial", "Cargo", "Military", "Private">>
MonthNames == <<"Jan", "Feb", "Mar", "Apr", "May", "Jun", "Jul", "Aug", "Sep",
                "Oct", "Nov", "Dec">>
DayNames == <<"Monday", "Tuesday", "Wednesday", "Thursday", "Friday", "Saturday",
              "Sunday">>
Letters == <<"A", "B", "C", "D", "E", "F", "G", "H", "I", "J", "K", "L", "M", "N", "O", "P", "Q", "R", "S", "T", "U", "V", "W", "X", "Y", "Z">>

SampleFirstYear == 1908
SampleLastYear == 2022
SamplePerYear == 3

\* the object pushed by createSampleData for (year, i); k0 draws were made before
SampleCrash(seed, year, k0) ==
    LET location   == SampleLocations[Rand(seed, k0 + 1, 5) + 1]
        fatalities == Rand(seed, k0 + 2, 300)
    IN  [ Location    |-> location.loc,
          Year        |-> year,
          Type        |-> SampleTypes[Rand(seed, k0 + 3, 4) + 1],
          Fatalities  |-> fatalities,
          Country     |-> location.country,
          Latitude    |-> location.lat,
          Longitude   |-> location.lng,
          Date        |-> MkDate(year, Rand(seed, k0 + 4, 12), Rand(seed, k0 + 5, 28) + 1),
          Operator    |-> <<"A", "i", "r", "l", "i", "n", "e", "_">> \o <<Letters[Rand(seed, k0 + 6, 26) + 1]>>,
          Aboard      |-> fatalities + Rand(seed, k0 + 7, 50),
          Ground      |-> Rand(seed, k0 + 8, 10),
          Summary     |-> [loc |-> location.loc, year |-> Num(year)],
          year        |-> year,
          month       |-> Rand(seed, k0 + 9, 12) + 1,
          month_name  |-> MonthNames[Rand(seed, k0 + 10, 12) + 1],
          day_of_week |-> Rand(seed, k0 + 11, 7),
          day_name    |-> DayNames[Rand(seed, k0 + 12, 7) + 1],
          season      |-> getSeason(year, Rand(seed, k0 + 13, 12) + 1),
          decade      |-> Num((year \div 10) * 10),
          latitude    |-> location.lat,
          longitude   |-> location.lng ]

\* this.data as createSampleData leaves it
createSampleData(seed) ==
    [ j \in 1..(Min2(SampleLastYear - SampleFirstYear + 1, MaxSampleYears)
                  * SamplePerYear) |->
        SampleCrash(seed, SampleFirstYear + ((j - 1) \div SamplePerYear), 13 * (j - 1)) ]

\* raw records of data/crashes.json as the dashboard sees them
DashRawRecords ==
    { [Location |-> <<"P", "a", "r", "i", "s", ",", " ", "F", "r", "a", "n", "c", "e">>, Year |-> 2001, Type |-> "Commercial",
       Fatalities |-> 10, Country |-> "France", Latitude |-> 48, Longitude |-> 2],
      [Location |-> <<"T", "o", "k", "y", "o", ",", " ", "J", "a", "p", "a", "n">>, Year |-> 1999, Type |-> "Cargo",
       Fatalities |-> 0, Country |-> "Japan"],
      [Year |-> 2001, Fatalities |-> 5] }

DashRawDatasets == SeqsUpTo(DashRawRecords, MaxRecords)

\* this.data.map(...) of loadData: record i takes draws 2i-1 and 2i
AD_mapNormalize(raw, seed) ==
    [ i \in 1..Len(raw) |->
        AD_normalizeCrashData(raw[i], Rand(seed, 2 * i - 1, 50), Rand(seed, 2 * i, 10)) ]

\* parseInt of the text of a range input
parseInt(s) == IF s # <<>> /\ IsNumeral(s) THEN Num(DecimalValue(s)) ELSE NaN

\* a filter that narrows the previous result instead of the full set
AD_filterSourceNarrowing == filteredData

\* the array applyFilters filters
AD_filterSource == data

\* the callback of this.data.filter in applyFilters
AD_applyFiltersKeeps(crash, year, region, crashType) ==
    /\ ~(Has(crash, "year") /\ ~year.nan /\ crash.year > year.v)
    /\ ~(region # "all" /\ (~Has(crash, "Country") \/ crash.Country # region))
    /\ ~(crashType # "all" /\ crash.Type # crashType)

\* applyFilters, reading the three controls.  updateHeaderStats and
\* renderTabCharts, called last, draw from filteredData and assign nothing.
AD_applyFilters ==
    /\ filteredData' =
          SelectSeq(AD_filterSource,
                    LAMBDA crash : AD_applyFiltersKeeps(crash, parseInt(yearFilter'),
                                                        dRegion', dCrashType'))
    /\ filtersApplied' = TRUE
    /\ everNarrowed' = (everNarrowed \/ Len(filteredData') < Len(data))
    /\ UNCHANGED <<data, currentTab, initPc, loadFailed>>

DashYearInputs == { <<"1", "9", "0", "8">>,
                    <<"1", "9", "9", "9">>, <<"2", "0", "0", "0">>, <<"2", "0", "2", "2">> }
DashRegions == { "all", "France", "Japan" }
DashCrashTypes == { "all", "Commercial", "Cargo" }
Tabs == { "overview", "globe", "trends", "analysis", "costs", "insights" }

\* the input listener of #yearFilter
yearFilterInput ==
    /\ initPc = "ready"
    /\ \E v \in DashYearInputs : v # yearFilter /\ yearFilter' = v
    /\ UNCHANGED <<dRegion, dCrashType>>
    /\ AD_applyFilters

\* the change listener of #regionFilter
regionFilterChange ==
    /\ initPc = "ready"
    /\ \E v \in DashRegions : v # dRegion /\ dRegion' = v
    /\ UNCHANGED <<yearFilter, dCrashType>>
    /\ AD_applyFilters

\* the change listener of #crashTypeFilter
crashTypeFilterChange ==
    /\ initPc = "ready"
    /\ \E v \in DashCrashTypes : v # dCrashType /\ dCrashType' = v
    /\ UNCHANGED <<yearFilter, dRegion>>
    /\ AD_applyFilters

\* the click listener of a tab button: switchTab(tabId)
switchTab ==
    /\ initPc = "ready"
    /\ \E tabId \in Tabs : currentTab' = tabId
    /\ UNCHANGED <<data, filteredData, initPc, loadFailed, filtersApplied, everNarrowed,
                   yearFilter, dRegion, dCrashType>>

\* init: loadData got the JSON array and every record normalized
AD_loadDataOk ==
    /\ initPc = "loading"
    /\ \E raw \in DashRawDatasets, seed \in 0..MaxSeed :
          /\ \A i \in 1..Len(raw) : ~Threw(AD_mapNormalize(raw, seed)[i])
          /\ data' = AD_mapNormalize(raw, seed)
          /\ filteredData' = AD_mapNormalize(raw, seed)
    /\ initPc' = "ready"
    /\ UNCHANGED <<currentTab, loadFailed, filtersApplied, everNarrowed, yearFilter,
                   dRegion, dCrashType>>

\* init: the fetch, response.json() or the map callback threw: the catch branch
AD_loadDataCatch ==
    /\ initPc = "loading"
    /\ \E seed \in 0..MaxSeed :
          /\ data' = createSampleData(seed)
          /\ filteredData' = createSampleData(seed)
    /\ loadFailed' = TRUE
    /\ initPc' = "ready"
    /\ UNCHANGED <<currentTab, filtersApplied, everNarrowed, yearFilter, dRegion,
                   dCrashType>>

\* the value null
null == [isNull |-> TRUE]

\* new AviationDashboard(): the constructor ran, init awaits loadData
DashInit ==
    /\ data = null /\ filteredData = null
    /\ currentTab = "overview"
    /\ initPc = "loading"
    /\ loadFailed = FALSE /\ filtersApplied = FALSE /\ everNarrowed = FALSE
    /\ yearFilter \in DashYearInputs
    /\ dRegion = "all" /\ dCrashType = "all"

-----------------------------------------------------------------------------
(* normalizeCrashData on its own: a raw record normalized, then normalized again *)

NormRawRecords ==
    { Spread(Spread(Spread(l, y), f), t) :
        l \in { <<>>, [Location |-> <<"P", "a", "r", "i", "s", ",", " ", "F", "r", "a", "n", "c", "e">>] },
        y \in { <<>>, [Year |-> 1999], [Year |-> 2005] },
        f \in { <<>>, [Fatalities |-> 0], [Fatalities |-> 60] },
        t \in { <<>>, [Type |-> "Cargo"] } }

AboardDraws == 0..Min2(49, MaxDraw)
GroundDraws == 0..Min2(9, MaxDraw)

NormInit ==
    /\ rawCrash \in NormRawRecords
    /\ norm1 = <<>> /\ norm2 = <<>>
    /\ normPc = "raw"

NormalizeOnce ==
    /\ normPc = "raw"
    /\ \E rA \in AboardDraws, rG \in GroundDraws :
          norm1' = AD_normalizeCrashData(rawCrash, rA, rG)
    /\ normPc' = "once"
    /\ UNCHANGED <<rawCrash, norm2>>

NormalizeAgain ==
    /\ normPc = "once"
    /\ ~Threw(norm1)
    /\ \E rA \in AboardDraws, rG \in GroundDraws :
          norm2' = AD_normalizeCrashData(norm1, rA, rG)
    /\ normPc' = "twice"
    /\ UNCHANGED <<rawCrash, norm1>>

-----------------------------------------------------------------------------
(* groupBy and renderAnomalyChart of dashboard.js *)

\* The property key an item's value turns into.  A key that is a
\* non-negative integer is an index key (idx); any other key is a string key.
IndexKey(n) == [idx |-> TRUE, n |-> n, s |-> <<>>]
StringKey(s) == [idx |-> FALSE, n |-> 0, s |-> s]
UndefinedKey == StringKey(<<"u", "n", "d", "e", "f", "i", "n", "e", "d">>)

PropertyKey(item, key) ==
    IF ~Has(item, key) THEN UndefinedKey
    ELSE IF key = "year" /\ item[key] >= 0 THEN IndexKey(item[key])
    ELSE StringKey(item[key])

SameKey(a, b) == a.idx = b.idx /\ (IF a.idx THEN a.n = b.n ELSE a.s = b.s)

\* Where a new key goes in the enumeration order of an object: index keys
\* first, in ascending order, then string keys in the order of creation.
KeyPosition(result, k) ==
    IF ~k.idx THEN Len(result) + 1
    ELSE 1 + Cardinality({ i \in 1..Len(result) : result[i].key.idx /\ result[i].key.n < k.n })

\* the reducer with the group replaced by the item instead of extended by it
groupByPushReplacing(result, k, item) ==
    IF \E i \in 1..Len(result) : SameKey(result[i].key, k)
    THEN [ i \in 1..Len(result) |->
             IF SameKey(result[i].key, k)
             THEN [key |-> k, items |-> <<item>>]
             ELSE result[i] ]
    ELSE LET p == KeyPosition(result, k)
         IN  SubSeq(result, 1, p - 1) \o <<[key |-> k, items |-> <<item>>]>>
               \o SubSeq(result, p, Len(result))

\* the reducer of groupBy: result[group] gets the item pushed
groupByPush(result, k, item) ==
    IF \E i \in 1..Len(result) : SameKey(result[i].key, k)
    THEN [ i \in 1..Len(result) |->
             IF SameKey(result[i].key, k)
             THEN [key |-> k, items |-> Append(result[i].items, item)]
             ELSE result[i] ]
    ELSE LET p == KeyPosition(result, k)
         IN  SubSeq(result, 1, p - 1) \o <<[key |-> k, items |-> <<item>>]>>
               \o SubSeq(result, p, Len(result))

\* array.reduce of groupBy over the items lo..hi, in index order, from result.
\* The range is halved so that long arrays evaluate in shallow nesting; the
\* test on left makes the left half be reduced before the right one starts.
RECURSIVE groupByRange(_, _, _, _, _)
groupByRange(result, array, key, lo, hi) ==
    IF lo > hi THEN result
    ELSE IF lo = hi THEN groupByPush(result, PropertyKey(array[lo], key), array[lo])
    ELSE LET mid == (lo + hi) \div 2
             left == groupByRange(result, array, key, lo, mid)
         IN  IF Len(left) >= 0 THEN groupByRange(left, array, key, mid + 1, hi)
             ELSE left

\* groupBy(array, key): the entries of the object, in enumeration order
groupBy(array, key) == groupByRange(<<>>, array, key, 1, Len(array))

\* the decimal numeral of a non-negative integer
RECURSIVE Numeral(_)
Numeral(n) == IF n < 10 THEN <<n>> ELSE Append(Numeral(n \div 10), n % 10)

\* a < b as strings, for numerals: the order of the default Array.prototype.sort
RECURSIVE NumeralLess(_, _)
NumeralLess(a, b) ==
    IF a = <<>> THEN b # <<>>
    ELSE IF b = <<>> THEN FALSE
    ELSE IF Head(a) # Head(b) THEN Head(a) < Head(b)
    ELSE NumeralLess(Tail(a), Tail(b))

\* [..].sort() of distinct non-negative integers
RECURSIVE sortDefault(_)
sortDefault(xs) ==
    IF xs = <<>> THEN <<>>
    ELSE LET m == CHOOSE i \in 1..Len(xs) :
                    \A j \in 1..Len(xs) : ~NumeralLess(Numeral(xs[j]), Numeral(xs[i]))
         IN  <<xs[m]>> \o sortDefault(SubSeq(xs, 1, m - 1) \o SubSeq(xs, m + 1, Len(xs)))

RECURSIVE sumSeq(_)
sumSeq(xs) == IF xs = <<>> THEN 0 ELSE Head(xs) + sumSeq(Tail(xs))

\* yearlyData[year].length
groupLength(grouped, n) ==
    LET i == CHOOSE i \in 1..Len(grouped) : SameKey(grouped[i].key, IndexKey(n))
    IN  Len(grouped[i].items)

\* const years of renderAnomalyChart: Object.keys(yearlyData).map(Number).sort()
anomalyYears(yearlyData) ==
    sortDefault([ i \in 1..Len(yearlyData) |-> yearlyData[i].key.n ])

\* const counts of renderAnomalyChart
anomalyCounts(yearlyData, years) ==
    [ i \in 1..Len(years) |-> groupLength(yearlyData, years[i]) ]

-----------------------------------------------------------------------------
(* The numbers of renderAnomalyChart.  A JavaScript number is an IEEE 754    *)
(* binary64 value: every division, subtraction, addition, square and square *)
(* root rounds its exact result to 53 significant bits, ties to even.  A     *)
(* finite number is kept as sign, odd mantissa m and exponent e, the value   *)
(* being m * 2^e; the mantissa is a natural number written as a sequence of  *)
(* digits of base 2^15, least significant first, <<>> for 0.  The numbers of *)
(* the chart stay far from the overflow and underflow thresholds.            *)

LimbBits == 15
Limb == 32768
MantissaBits == 53

RECURSIVE bigTrim(_)
bigTrim(a) ==
    IF a = <<>> \/ a[Len(a)] # 0 THEN a ELSE bigTrim(SubSeq(a, 1, Len(a) - 1))

RECURSIVE bigOf(_)
bigOf(n) == IF n = 0 THEN <<>> ELSE <<n % Limb>> \o bigOf(n \div Limb)

RECURSIVE bigZeros(_)
bigZeros(n) == IF n = 0 THEN <<>> ELSE <<0>> \o bigZeros(n - 1)

RECURSIVE bigAddC(_, _, _)
bigAddC(a, b, c) ==
    IF a = <<>> /\ b = <<>> THEN (IF c = 0 THEN <<>> ELSE <<c>>)
    ELSE LET x == (IF a = <<>> THEN 0 ELSE Head(a)) + (IF b = <<>> THEN 0 ELSE Head(b)) + c
         IN  <<x % Limb>> \o bigAddC(IF a = <<>> THEN a ELSE Tail(a),
                                      IF b = <<>> THEN b ELSE Tail(b), x \div Limb)

bigAdd(a, b) == bigAddC(a, b, 0)

RECURSIVE bigSubB(_, _, _)
bigSubB(a, b, w) ==
    IF a = <<>> THEN <<>>
    ELSE LET x == Head(a) - (IF b = <<>> THEN 0 ELSE Head(b)) - w
         IN  <<(x + Limb) % Limb>>
                \o bigSubB(Tail(a), IF b = <<>> THEN b ELSE Tail(b), IF x < 0 THEN 1 ELSE 0)

\* a - b where a >= b
bigSub(a, b) == bigTrim(bigSubB(a, b, 0))

RECURSIVE bigLess(_, _)
bigLess(a, b) ==
    IF Len(a) # Len(b) THEN Len(a) < Len(b)
    ELSE IF a = <<>> THEN FALSE
    ELSE IF a[Len(a)] # b[Len(b)] THEN a[Len(a)] < b[Len(b)]
    ELSE bigLess(SubSeq(a, 1, Len(a) - 1), SubSeq(b, 1, Len(b) - 1))

RECURSIVE bigMulSmallC(_, _, _)
bigMulSmallC(a, k, c) ==
    IF a = <<>> THEN (IF c = 0 THEN <<>> ELSE <<c>>)
    ELSE LET x == Head(a) * k + c
         IN  <<x % Limb>> \o bigMulSmallC(Tail(a), k, x \div Limb)

\* a * k for 0 <= k < 2^15
bigMulSmall(a, k) == bigTrim(bigMulSmallC(a, k, 0))

RECURSIVE bigMul(_, _)
bigMul(a, b) ==
    IF a = <<>> \/ b = <<>> THEN <<>>
    ELSE LET high == bigMul(a, Tail(b))
         IN  bigAdd(bigMulSmall(a, Head(b)), IF high = <<>> THEN <<>> ELSE <<0>> \o high)

RECURSIVE bigDivSmallR(_, _, _)
bigDivSmallR(a, k, r) ==
    IF a = <<>> THEN [q |-> <<>>, r |-> r]
    ELSE LET x == r * Limb + a[Len(a)]
             low == bigDivSmallR(SubSeq(a, 1, Len(a) - 1), k, x % k)
         IN  [q |-> Append(low.q, x \div k), r |-> low.r]

\* quotient and remainder of a by k, 0 < k <= 2^15
bigDivSmall(a, k) ==
    LET d == bigDivSmallR(a, k, 0) IN [q |-> bigTrim(d.q), r |-> d.r]

RECURSIVE intBitLen(_)
intBitLen(n) == IF n = 0 THEN 0 ELSE 1 + intBitLen(n \div 2)

bigBitLen(a) ==
    IF a = <<>> THEN 0 ELSE LimbBits * (Len(a) - 1) + intBitLen(a[Len(a)])

\* a * 2^s
bigShl(a, s) ==
    IF a = <<>> THEN <<>>
    ELSE bigZeros(s \div LimbBits) \o bigMulSmall(a, 2 ^ (s % LimbBits))

\* floor(a / 2^s), and whether bits were lost
bigShr(a, s) ==
    LET k == s \div LimbBits
        low == SubSeq(a, 1, Min2(k, Len(a)))
        d == bigDivSmall(SubSeq(a, k + 1, Len(a)), 2 ^ (s % LimbBits))
    IN  [q |-> d.q, sticky |-> d.r # 0 \/ \E i \in 1..Len(low) : low[i] # 0]

\* the bits from bit down to last of the largest r with r * r <= n, added to
\* the higher bits r already has
RECURSIVE bigSqrtBits(_, _, _, _)
bigSqrtBits(n, r, bit, last) ==
    LET c == bigAdd(r, bigShl(<<1>>, bit))
    IN  IF bigLess(n, bigMul(c, c))
        THEN (IF bit = last THEN r ELSE bigSqrtBits(n, r, bit - 1, last))
        ELSE (IF bit = last THEN c ELSE bigSqrtBits(n, c, bit - 1, last))

\* the same, digit by digit from digit j down
RECURSIVE bigSqrtDigits(_, _, _)
bigSqrtDigits(n, r, j) ==
    LET digit == bigSqrtBits(n, r, LimbBits * j + LimbBits - 1, LimbBits * j)
    IN  IF j = 0 THEN digit ELSE bigSqrtDigits(n, digit, j - 1)

\* the largest r with r * r <= n
bigSqrt(n) == bigSqrtDigits(n, <<>>, bigBitLen(n) \div (2 * LimbBits))

f64NaN == [nan |-> TRUE, neg |-> FALSE, m |-> <<>>, e |-> 0]
f64Zero == [nan |-> FALSE, neg |-> FALSE, m |-> <<>>, e |-> 0]

\* sign, mantissa and exponent with the mantissa made odd
RECURSIVE f64Norm(_, _, _)
f64Norm(neg, m, e) ==
    IF m = <<>> THEN f64Zero
    ELSE IF Head(m) = 0 THEN f64Norm(neg, Tail(m), e + LimbBits)
    ELSE IF Head(m) % 2 = 0 THEN f64Norm(neg, bigDivSmall(m, 2).q, e + 1)
    ELSE [nan |-> FALSE, neg |-> neg, m |-> m, e |-> e]

\* the binary64 value nearest to n * 2^e, or to a value just above it when
\* sticky (n then has more than 54 bits); ties go to the even mantissa
f64Round(neg, n, e, sticky) ==
    LET len == bigBitLen(n)
    IN  IF len <= MantissaBits THEN f64Norm(neg, n, e)
        ELSE LET s == len - MantissaBits
                 t == bigShr(n, s - 1)
                 guard == Head(t.q) % 2 = 1
                 q == bigDivSmall(t.q, 2).q
                 up == guard /\ (sticky \/ t.sticky \/ Head(q) % 2 = 1)
             IN  f64Norm(neg, IF up THEN bigAdd(q, <<1>>) ELSE q, e + s)

\* the number an integer literal or an array length is
f64OfInt(n) == f64Norm(n < 0, bigOf(IF n < 0 THEN 0 - n ELSE n), 0)

f64Neg(x) == IF x.m = <<>> THEN x ELSE [x EXCEPT !.neg = ~x.neg]

\* Math.abs(x)
MathAbs(x) == [x EXCEPT !.neg = FALSE]

\* x + y
f64Add(x, y) ==
    IF x.nan \/ y.nan THEN f64NaN
    ELSE IF x.m = <<>> THEN y
    ELSE IF y.m = <<>> THEN x
    ELSE LET e == Min2(x.e, y.e)
             xm == bigShl(x.m, x.e - e)
             ym == bigShl(y.m, y.e - e)
         IN  IF x.neg = y.neg THEN f64Round(x.neg, bigAdd(xm, ym), e, FALSE)
             ELSE IF bigLess(xm, ym) THEN f64Round(y.neg, bigSub(ym, xm), e, FALSE)
             ELSE f64Round(x.neg, bigSub(xm, ym), e, FALSE)

\* x - y
f64Sub(x, y) == f64Add(x, f64Neg(y))

\* x * y
f64Mul(x, y) ==
    IF x.nan \/ y.nan THEN f64NaN
    ELSE f64Round(x.neg # y.neg, bigMul(x.m, y.m), x.e + y.e, FALSE)

\* x / n for an array length n; 0 / 0 is NaN
f64DivInt(x, n) ==
    IF x.nan \/ (n = 0 /\ x.m = <<>>) THEN f64NaN
    ELSE LET d == bigDivSmall(bigShl(x.m, 5 * LimbBits), n)
         IN  f64Round(x.neg, d.q, x.e - 5 * LimbBits, d.r # 0)

\* Math.pow(x, 2)
MathPow2(x) == f64Mul(x, x)

\* Math.sqrt(x) for x >= 0
MathSqrt(x) ==
    IF x.nan THEN f64NaN
    ELSE LET k == 8 * LimbBits + (x.e % 2)
             n == bigShl(x.m, k)
             r == bigSqrt(n)
         IN  f64Round(FALSE, r, (x.e - k) \div 2, bigMul(r, r) # n)

\* x < y; every comparison with NaN is false
f64Less(x, y) ==
    LET e == Min2(x.e, y.e)
        xm == bigShl(x.m, x.e - e)
        ym == bigShl(y.m, y.e - e)
    IN  /\ ~x.nan /\ ~y.nan
        /\ IF x.neg # y.neg THEN x.neg
           ELSE IF x.neg THEN bigLess(ym, xm)
           ELSE bigLess(xm, ym)

\* the sum of (count - avgCrashes)^2 the reduce of stdDev builds, term by term
sumSquares(counts, avg) ==
    LET acc[i \in 0..Len(counts)] ==
            IF i = 0 THEN f64Zero
            ELSE f64Add(acc[i - 1], MathPow2(f64Sub(f64OfInt(counts[i]), avg)))
    IN  acc[Len(counts)]

\* const avgCrashes: number is the value the code holds, sum / length; num/den
\* is the exact quotient it approximates, nan tells 0/0
anomalyAvg(counts) ==
    IF Len(counts) = 0 THEN [nan |-> TRUE, num |-> 0, den |-> 1, number |-> f64NaN]
    ELSE [nan |-> FALSE, num |-> sumSeq(counts), den |-> Len(counts),
          number |-> f64DivInt(f64OfInt(sumSeq(counts)), Len(counts))]

\* const stdDev: number is the value the code holds; sqNum/sqDen is the exact
\* square of the standard deviation, with avg = S/n the sum of
\* (n*count - S)^2 over n^3
anomalyStdDev(counts) ==
    LET n == Len(counts)
        S == sumSeq(counts)
    IN  IF n = 0 THEN [nan |-> TRUE, sqNum |-> 0, sqDen |-> 1, number |-> f64NaN]
        ELSE [nan |-> FALSE,
              sqNum |-> sumSeq([ i \in 1..n |-> (n * counts[i] - S) * (n * counts[i] - S) ]),
              sqDen |-> n * n * n,
              number |-> MathSqrt(f64DivInt(sumSquares(counts, anomalyAvg(counts).number), n))]

\* the test with >= in place of >
isAnomalyNonStrict(count, avg, sd) ==
    /\ ~avg.number.nan /\ ~sd.number.nan
    /\ ~f64Less(MathAbs(f64Sub(f64OfInt(count), avg.number)),
                f64Mul(f64OfInt(2), sd.number))

\* Math.abs(counts[idx] - avgCrashes) > 2 * stdDev
isAnomaly(count, avg, sd) ==
    f64Less(f64Mul(f64OfInt(2), sd.number),
            MathAbs(f64Sub(f64OfInt(count), avg.number)))

\* counts[idx] > avgCrashes ? 'High Crashes' : 'Low Crashes'
anomalyType(count, avg) ==
    IF f64Less(avg.number, f64OfInt(count)) THEN "High Crashes" ELSE "Low Crashes"

\* const anomalies of renderAnomalyChart
anomalyList(years, counts, avg, sd) ==
    LET flagged[i \in 0..Len(years)] ==
            IF i = 0 THEN <<>>
            ELSE IF isAnomaly(counts[i], avg, sd)
                 THEN Append(flagged[i - 1],
                             [year |-> years[i], crashes |-> counts[i],
                              type |-> anomalyType(counts[i], avg)])
                 ELSE flagged[i - 1]
    IN  flagged[Len(years)]

\* renderAnomalyChart() on the insights tab
renderAnomalyChart ==
    /\ anomPc = "start"
    /\ IF \E i \in 1..Len(filteredData) : ~Has(filteredData[i], "year")
       THEN \* yearlyData[NaN] is undefined: reading .length throws
            /\ anomPc' = "threw"
            /\ UNCHANGED <<chartYears, chartCounts, avgCrashes, stdDev, anomalies>>
       ELSE \E yearlyData \in { groupBy(filteredData, "year") } :
            \E years \in { anomalyYears(yearlyData) } :
            \E counts \in { anomalyCounts(yearlyData, years) } :
              /\ anomPc' = "rendered"
              /\ chartYears' = years
              /\ chartCounts' = counts
              /\ avgCrashes' = anomalyAvg(counts)
              /\ stdDev' = anomalyStdDev(counts)
              /\ anomalies' = anomalyList(years, counts, avgCrashes', stdDev')

\* a normalized record of the given year (with no Year when y < 0)
ChartCrash(y) ==
    AD_normalizeCrashData(
        IF y < 0 THEN [Location |-> <<"O", "s", "l", "o">>, Fatalities |-> 0]
        ELSE [Location |-> <<"O", "s", "l", "o">>, Year |-> y, Fatalities |-> 0],
        0, 0)

ChartYears == { -1, 5, 10, 2004 }

\* 10 crashes in each of 2000..2003 and 100 in 2004
SpikeData ==
    [ j \in 1..140 |-> ChartCrash(IF j <= 40 THEN 2000 + ((j - 1) \div 10) ELSE 2004) ]

\* 2 crashes in 2000 and 5 in each of 2001..2004
DipData ==
    [ j \in 1..22 |-> ChartCrash(IF j <= 2 THEN 2000 ELSE 2001 + ((j - 3) \div 5)) ]

AnomalyInit ==
    /\ filteredData \in
         { [ i \in 1..Len(ys) |-> ChartCrash(ys[i]) ] : ys \in SeqsUpTo(ChartYears, MaxChartRecords) }
           \cup { SpikeData, DipData }
    /\ data = filteredData
    /\ currentTab = "insights"
    /\ initPc = "ready"
    /\ loadFailed = FALSE /\ filtersApplied = FALSE /\ everNarrowed = FALSE
    /\ yearFilter = <<"2", "0", "2", "2">>
    /\ dRegion = "all" /\ dCrashType = "all"
    /\ anomPc = "start"
    /\ chartYears = <<>> /\ chartCounts = <<>>
    /\ avgCrashes = [nan |-> FALSE, num |-> 0, den |-> 1, number |-> f64Zero]
    /\ stdDev = [nan |-> FALSE, sqNum |-> 0, sqDen |-> 1, number |-> f64Zero]
    /\ anomalies = <<>>

-----------------------------------------------------------------------------
(* The rate expressions of the charts of dashboard.js *)

\* A JavaScript number that a division produced: a fraction n/d with d > 0,
\* Infinity, -Infinity or NaN.
Frac(n, d) == [k |-> "num", n |-> n, d |-> d]
Infinity == [k |-> "inf", n |-> 0, d |-> 1]
MinusInfinity == [k |-> "-inf", n |-> 0, d |-> 1]
NotANumber == [k |-> "nan", n |-> 0, d |-> 1]
Zero == Frac(0, 1)

\* a / b for integers a and b
Divide(a, b) ==
    IF b > 0 THEN Frac(a, b)
    ELSE IF b < 0 THEN Frac(-a, -b)
    ELSE IF a > 0 THEN Infinity
    ELSE IF a < 0 THEN MinusInfinity
    ELSE NotANumber

\* x * 100
Times100(x) == IF x.k = "num" THEN Frac(100 * x.n, x.d) ELSE x

\* x || 0: 0 and NaN are falsy, every other number is itself
OrZero(x) == IF x.k = "nan" \/ (x.k = "num" /\ x.n = 0) THEN Zero ELSE x

IsZero(x) == x.k = "num" /\ x.n = 0

\* renderDecadeChart: totalFatalities / totalAboard * 100 || 0
decadeFatalityRate(totalFatalities, totalAboard) ==
    OrZero(Times100(Divide(totalFatalities, totalAboard)))

\* renderSurvivalRateChart: (survivors / totalAboard) * 100 || 0
chartSurvivalRate(totalFatalities, totalAboard) ==
    OrZero(Times100(Divide(totalAboard - totalFatalities, totalAboard)))

\* renderRiskAnalysisChart: (totalFatalities / totalAboard) * 100 || 0
riskFatalityRate(totalFatalities, totalAboard) ==
    OrZero(Times100(Divide(totalFatalities, totalAboard)))

\* renderSafetyRankingsChart:
\* totalAboard > 0 ? (totalFatalities / totalAboard) * 100 : 0
safetyFatalityRate(totalFatalities, totalAboard) ==
    IF totalAboard > 0 THEN Times100(Divide(totalFatalities, totalAboard)) ELSE Zero

\* generateAIInsights:
\* totalAboard > 0 ? ((totalAboard - totalFatalities) / totalAboard * 100) : 0
insightSurvivalRate(totalFatalities, totalAboard) ==
    IF totalAboard > 0
    THEN Times100(Divide(totalAboard - totalFatalities, totalAboard))
    ELSE Zero

\* the two totals an expression is evaluated on
RateTotals == 0..MaxTotal

RateInit ==
    /\ rateFatalities \in RateTotals
    /\ rateAboard \in RateTotals
    /\ ratePc = "start"
    /\ rateValue = Zero

EvalDecadeFatalityRate ==
    /\ ratePc = "start"
    /\ rateValue' = decadeFatalityRate(rateFatalities, rateAboard)
    /\ ratePc' = "renderDecadeChart"
    /\ UNCHANGED <<rateFatalities, rateAboard>>

EvalChartSurvivalRate ==
    /\ ratePc = "start"
    /\ rateValue' = chartSurvivalRate(rateFatalities, rateAboard)
    /\ ratePc' = "renderSurvivalRateChart"
    /\ UNCHANGED <<rateFatalities, rateAboard>>

EvalRiskFatalityRate ==
    /\ ratePc = "start"
    /\ rateValue' = riskFatalityRate(rateFatalities, rateAboard)
    /\ ratePc' = "renderRiskAnalysisChart"
    /\ UNCHANGED <<rateFatalities, rateAboard>>

EvalSafetyFatalityRate ==
    /\ ratePc = "start"
    /\ rateValue' = safetyFatalityRate(rateFatalities, rateAboard)
    /\ ratePc' = "renderSafetyRankingsChart"
    /\ UNCHANGED <<rateFatalities, rateAboard>>

EvalInsightSurvivalRate ==
    /\ ratePc = "start"
    /\ rateValue' = insightSurvivalRate(rateFatalities, rateAboard)
    /\ ratePc' = "generateAIInsights"
    /\ UNCHANGED <<rateFatalities, rateAboard>>

-----------------------------------------------------------------------------
(* renderSafetyRankingsChart of dashboard.js *)

\* a < b, a = b for fractions with positive denominators
FracLess(a, b) == a.n * b.d < b.n * a.d
FracEq(a, b) == a.n * b.d = b.n * a.d

\* crash.Aboard || crash.Fatalities + 10
aboardOrEstimate(crash) ==
    IF Has(crash, "Aboard") /\ crash.Aboard # 0 THEN crash.Aboard
    ELSE crash.Fatalities + 10

\* crashes.reduce((sum, crash) => sum + (crash.Aboard || crash.Fatalities + 10), 0)
RECURSIVE sumAboard(_)
sumAboard(crashes) ==
    IF crashes = <<>> THEN 0
    ELSE aboardOrEstimate(Head(crashes)) + sumAboard(Tail(crashes))

\* Math.min(crashCount / 10 * 100, 100)
safetyCrashScore(crashCount) == Min2(10 * crashCount, 100)

\* Math.min(fatalityRate * 2, 100)
safetyFatalityScore(fatalityRate) ==
    IF fatalityRate.n * 2 >= 100 * fatalityRate.d THEN Frac(100, 1)
    ELSE Frac(2 * fatalityRate.n, fatalityRate.d)

\* the weights of the two scores the other way round
safetyRawScoreSwapped(crashScore, fatalityScore) ==
    Frac(7 * crashScore * fatalityScore.d + 3 * fatalityScore.n, 10 * fatalityScore.d)

\* (crashScore * 0.3) + (fatalityScore * 0.7)
safetyRawScore(crashScore, fatalityScore) ==
    Frac(3 * crashScore * fatalityScore.d + 7 * fatalityScore.n, 10 * fatalityScore.d)

\* Math.max(0, 100 - rawScore)
safetySafetyScore(rawScore) ==
    IF 100 * rawScore.d - rawScore.n <= 0 THEN Zero
    ELSE Frac(100 * rawScore.d - rawScore.n, rawScore.d)

\* the ladder with > in place of >=
safetyGradeStrict(safetyScore) ==
    IF safetyScore.n > 90 * safetyScore.d THEN "A+"
    ELSE IF safetyScore.n > 80 * safetyScore.d THEN "A"
    ELSE IF safetyScore.n > 70 * safetyScore.d THEN "B"
    ELSE IF safetyScore.n > 60 * safetyScore.d THEN "C"
    ELSE IF safetyScore.n > 50 * safetyScore.d THEN "D"
    ELSE "F"

\* the if / else if ladder that sets grade
safetyGrade(safetyScore) ==
    IF safetyScore.n >= 90 * safetyScore.d THEN "A+"
    ELSE IF safetyScore.n >= 80 * safetyScore.d THEN "A"
    ELSE IF safetyScore.n >= 70 * safetyScore.d THEN "B"
    ELSE IF safetyScore.n >= 60 * safetyScore.d THEN "C"
    ELSE IF safetyScore.n >= 50 * safetyScore.d THEN "D"
    ELSE "F"

\* the callback of operators.map: the score entry of one operator
safetyEntry(operator, crashes) ==
    LET crashCount      == Len(crashes)
        totalFatalities == sumField(crashes, "Fatalities")
        totalAboard     == sumAboard(crashes)
        fatalityRate    == safetyFatalityRate(totalFatalities, totalAboard)
        crashScore      == safetyCrashScore(crashCount)
        fatalityScore   == safetyFatalityScore(fatalityRate)
        rawScore        == safetyRawScore(crashScore, fatalityScore)
        safetyScore     == safetySafetyScore(rawScore)
    IN  [ operator        |-> operator,
          safetyScore     |-> safetyScore,
          grade           |-> safetyGrade(safetyScore),
          crashCount      |-> crashCount,
          totalFatalities |-> totalFatalities,
          fatalityRate    |-> fatalityRate ]

\* Object.entries(operatorData).map(...): one entry per group, in the
\* enumeration order of the groups
safetyEntries(operatorData) ==
    [ i \in 1..Len(operatorData) |->
        safetyEntry(operatorData[i].key.s, operatorData[i].items) ]

\* Where the sort puts an entry among entries already in order: behind every
\* entry whose score is not smaller.  Array.prototype.sort is stable.
sortByScoreInsert(sorted, e) ==
    LET p == Cardinality({ i \in 1..Len(sorted) :
                             ~FracLess(sorted[i].safetyScore, e.safetyScore) })
    IN  SubSeq(sorted, 1, p) \o <<e>> \o SubSeq(sorted, p + 1, Len(sorted))

\* safetyScores.sort((a, b) => b.safetyScore - a.safetyScore)
RECURSIVE sortByScore(_)
sortByScore(entries) ==
    IF entries = <<>> THEN <<>>
    ELSE sortByScoreInsert(sortByScore(SubSeq(entries, 1, Len(entries) - 1)),
                           entries[Len(entries)])

\* xs.slice(0, n)
slice0(xs, n) == SubSeq(xs, 1, Min2(n, Len(xs)))

\* renderSafetyRankingsChart() on the costs tab
renderSafetyRankingsChart ==
    /\ safetyPc = "start"
    /\ \E operatorData \in { groupBy(filteredData, "Operator") } :
       \E sorted \in { sortByScore(safetyEntries(operatorData)) } :
          /\ safetyScores' = sorted
          /\ topSafety' = slice0(sorted, 15)
    /\ safetyPc' = "rendered"

\* a record as loadData leaves it: operator op, f fatalities, rA the draw
\* added to a positive f for Aboard
ScoreCrash(op, f, rA) ==
    AD_normalizeCrashData(
        [Location |-> <<op, ",", " ", "X">>, Year |-> 2000, Fatalities |-> f,
         Country |-> "X", Type |-> "Cargo"], rA, 0)

ScoreOperators == { "A", "B" }

\* (Fatalities, draw): Aboard 50, 10 and 50
ScoreCounts == { <<0, 0>>, <<5, 5>>, <<10, 40>> }

ScoreCrashes == { ScoreCrash(op, c[1], c[2]) : op \in ScoreOperators, c \in ScoreCounts }

\* ten crashes of one operator
TenCrashes(f, rA) == [ j \in 1..10 |-> ScoreCrash("A", f, rA) ]

\* the dashboard with its data loaded and the given filtered set
DashLoadedWith(fd) ==
    /\ filteredData = fd
    /\ data = filteredData
    /\ currentTab = "costs"
    /\ initPc = "ready"
    /\ loadFailed = FALSE /\ filtersApplied = FALSE /\ everNarrowed = FALSE
    /\ yearFilter = <<"2", "0", "2", "2">>
    /\ dRegion = "all" /\ dCrashType = "all"

SafetyInit ==
    /\ \E fd \in SeqsUpTo(ScoreCrashes, MaxScoreRecords)
                   \cup { TenCrashes(0, 0), TenCrashes(5, 5) } : DashLoadedWith(fd)
    /\ safetyPc = "start"
    /\ safetyScores = <<>> /\ topSafety = <<>>

-----------------------------------------------------------------------------
(* src/unnamed/part_005: loadCrashData and renderOperatorRiskRanking *)

\* Math.min(100, Math.log1p(fatalities) * 20) rounded by toFixed(2), in
\* hundredths; the logarithm is tabulated for the fatality counts of the model
severityScoreOf(fatalities) ==
    CASE fatalities = 0   -> 0         \* log1p(0) = 0
      [] fatalities = 10  -> 4796      \* log1p(10) * 20 = 47.9579...
      [] fatalities = 200 -> 10000     \* log1p(200) * 20 = 106.06... capped

\* the map callback of loadCrashData; r is Math.floor(Math.random() * 20)
loadCrashRecord(d, index, r) ==
    LET fatalities == IF Has(d, "Fatalities") THEN d.Fatalities ELSE 0
    IN  [ id            |-> index,
          year          |-> IF Has(d, "Year") THEN Num(d.Year) ELSE NaN,
          date          |-> IF Has(d, "Year") /\ d.Year # 0
                            THEN [year |-> d.Year, rest |-> "-01-01"]
                            ELSE [year |-> 0, rest |-> "Unknown"],
          fatalities    |-> fatalities,
          aboard        |-> fatalities + r,
          ground        |-> 0,
          operator      |-> IF Has(d, "Type") /\ d.Type # "" THEN d.Type ELSE "Unknown",
          type          |-> IF Has(d, "Type") /\ d.Type # "" THEN d.Type ELSE "Unknown",
          location      |-> IF Has(d, "Location") /\ d.Location # ""
                            THEN d.Location ELSE "Unknown",
          country       |-> IF Has(d, "Country") /\ d.Country # ""
                            THEN d.Country ELSE "Unknown",
          latitude      |-> d.Latitude,
          longitude     |-> d.Longitude,
          severityScore |-> severityScoreOf(fatalities),
          summary       |-> [loc |-> IF Has(d, "Location") THEN d.Location ELSE "undefined",
                             country |-> IF Has(d, "Country") THEN d.Country
                                         ELSE "undefined"] ]

\* rawData.filter(...).map(...) of loadCrashData: records without a finite
\* Latitude and Longitude are dropped, draw k goes to the k-th record kept
loadCrashDataMap(rawData, seed) ==
    LET kept == SelectSeq(rawData, LAMBDA d : Has(d, "Latitude") /\ Has(d, "Longitude"))
    IN  [ i \in 1..Len(kept) |-> loadCrashRecord(kept[i], i - 1, Rand(seed, i, 20)) ]

\* operatorStats after the forEach: one entry per operator in the order of
\* first occurrence, as Object.keys enumerates it
RECURSIVE operatorStatsOf(_)
operatorStatsOf(ds) ==
    IF ds = <<>> THEN <<>>
    ELSE LET before == operatorStatsOf(SubSeq(ds, 1, Len(ds) - 1))
             d      == ds[Len(ds)]
         IN  IF \E i \in 1..Len(before) : before[i].operator = d.operator
             THEN [ i \in 1..Len(before) |->
                      IF before[i].operator = d.operator
                      THEN [ operator    |-> d.operator,
                             crashes     |-> before[i].crashes + 1,
                             fatalities  |-> before[i].fatalities + d.fatalities,
                             severitySum |-> before[i].severitySum + d.severityScore ]
                      ELSE before[i] ]
             ELSE Append(before, [ operator    |-> d.operator,
                                   crashes     |-> 1,
                                   fatalities  |-> d.fatalities,
                                   severitySum |-> d.severityScore ])

\* the score with the crash count not weighted
weightedRiskScoreUnweighted(stats) ==
    Frac(100 * stats.crashes * stats.crashes
           + 10 * stats.fatalities * stats.crashes + 2 * stats.severitySum,
         100 * stats.crashes)

\* (stats.crashes * 1.5) + (stats.fatalities / 10) + (avgSeverity * 2) with
\* avgSeverity = stats.severitySum / stats.crashes, severitySum in hundredths
weightedRiskScore(stats) ==
    Frac(150 * stats.crashes * stats.crashes
           + 10 * stats.fatalities * stats.crashes + 2 * stats.severitySum,
         100 * stats.crashes)

\* Where the sort puts an operator among operators already in order
sortByRiskInsert(sorted, e) ==
    LET p == Cardinality({ i \in 1..Len(sorted) :
                   ~FracLess(sorted[i].weightedRiskScore, e.weightedRiskScore) })
    IN  SubSeq(sorted, 1, p) \o <<e>> \o SubSeq(sorted, p + 1, Len(sorted))

\* .sort((a, b) => b.weightedRiskScore - a.weightedRiskScore)
RECURSIVE sortByRisk(_)
sortByRisk(entries) ==
    IF entries = <<>> THEN <<>>
    ELSE sortByRiskInsert(sortByRisk(SubSeq(entries, 1, Len(entries) - 1)),
                          entries[Len(entries)])

\* let rankedOperators of renderOperatorRiskRanking
rankedOperatorsOf(aviation) ==
    LET operatorStats == operatorStatsOf(SelectSeq(aviation,
                                                   LAMBDA d : d.operator # "Unknown"))
        scored == [ i \in 1..Len(operatorStats) |->
                      [ operator          |-> operatorStats[i].operator,
                        weightedRiskScore |-> weightedRiskScore(operatorStats[i]) ] ]
        above  == SelectSeq(scored, LAMBDA op :
                      op.weightedRiskScore.n > 10 * op.weightedRiskScore.d)
    IN  slice0(sortByRisk(above), 15)

\* renderOperatorRiskRanking()
renderOperatorRiskRanking ==
    /\ riskPc = "start"
    /\ rankedOperators' = rankedOperatorsOf(AVIATION_DATA)
    /\ riskPc' = "rendered"
    /\ UNCHANGED AVIATION_DATA

\* raw records of ../data/crashes.json as part_005 reads them
RiskRawRecords ==
    { Spread([Latitude |-> 10, Longitude |-> 20, Year |-> 2000, Fatalities |-> f], t) :
        f \in { 0, 10, 200 },
        t \in { <<>>, [Type |-> "Cargo"], [Type |-> "Commercial"], [Type |-> "Military"] } }
      \cup { [Year |-> 2000, Fatalities |-> 10, Type |-> "Cargo"] }

RiskInit ==
    /\ AVIATION_DATA \in
         { loadCrashDataMap(rawData, seed) :
             rawData \in SeqsUpTo(RiskRawRecords, MaxRiskRecords), seed \in 0..MaxSeed }
    /\ riskPc = "start"
    /\ rankedOperators = <<>>

-----------------------------------------------------------------------------
(* renderPredictiveTrendChart of dashboard.js *)

\* a + x for an integer a and a number x
PlusNumber(a, x) == IF x.k = "num" THEN Frac(a * x.d + x.n, x.d) ELSE x

\* x * i for a number x and a positive integer i
TimesInt(x, i) == IF x.k = "num" THEN Frac(x.n * i, x.d) ELSE x

\* const slope = (lastCount - firstCount) / (lastYear - firstYear)
trendSlopeOf(years, counts) ==
    Divide(counts[Len(counts)] - counts[1], years[Len(years)] - years[1])

\* futureYears after the loop for (let i = 1; i <= 10; i++)
trendFutureYears(years) == [ i \in 1..10 |-> years[Len(years)] + i ]

\* futureCounts after the loop
trendFutureCounts(years, counts) ==
    [ i \in 1..10 |-> PlusNumber(counts[Len(counts)], TimesInt(trendSlopeOf(years, counts), i)) ]

\* renderPredictiveTrendChart() on the costs tab
renderPredictiveTrendChart ==
    /\ trendPc = "start"
    /\ IF \E i \in 1..Len(filteredData) : ~Has(filteredData[i], "year")
       THEN \* yearlyData[NaN] is undefined: reading .length throws
            /\ trendPc' = "threw"
            /\ UNCHANGED <<trendYears, trendCounts, trendSlope, futureYears, futureCounts>>
       ELSE \E yearlyData \in { groupBy(filteredData, "year") } :
            \E years \in { anomalyYears(yearlyData) } :
            \E counts \in { anomalyCounts(yearlyData, years) } :
              /\ trendPc' = "rendered"
              /\ trendYears' = years
              /\ trendCounts' = counts
              /\ IF Len(years) > 1
                 THEN /\ trendSlope' = trendSlopeOf(years, counts)
                      /\ futureYears' = trendFutureYears(years)
                      /\ futureCounts' = trendFutureCounts(years, counts)
                 ELSE UNCHANGED <<trendSlope, futureYears, futureCounts>>

\* 5 crashes in 2010 and 15 in 2020
DecadeRiseData == [ j \in 1..20 |-> ChartCrash(IF j <= 5 THEN 2010 ELSE 2020) ]

TrendInit ==
    /\ \E fd \in { [ i \in 1..Len(ys) |-> ChartCrash(ys[i]) ] :
                     ys \in SeqsUpTo(ChartYears, MaxChartRecords) }
                   \cup { DecadeRiseData } : DashLoadedWith(fd)
    /\ trendPc = "start"
    /\ trendYears = <<>> /\ trendCounts = <<>>
    /\ trendSlope = Zero
    /\ futureYears = <<>> /\ futureCounts = <<>>

-----------------------------------------------------------------------------
(* renderAIInsights and generateAIInsights of dashboard.js *)

\* the value undefined
undefined == [isUndefined |-> TRUE]

\* the loop over Object.entries(yearlyCrashes): the state after i entries
insightYearLoop(yearlyCrashes) ==
    LET st[i \in 0..Len(yearlyCrashes)] ==
          IF i = 0
          THEN [minCrashes |-> Infinity, safestYear |-> undefined,
                maxCrashes |-> 0, worstYear |-> undefined]
          ELSE LET count == Len(yearlyCrashes[i].items)
                   prev  == st[i - 1]
                   low   == prev.minCrashes.k = "inf" \/ count < prev.minCrashes.n
                   high  == count > prev.maxCrashes
               IN  [minCrashes |-> IF low THEN Frac(count, 1) ELSE prev.minCrashes,
                    safestYear |-> IF low THEN yearlyCrashes[i].key ELSE prev.safestYear,
                    maxCrashes |-> IF high THEN count ELSE prev.maxCrashes,
                    worstYear  |-> IF high THEN yearlyCrashes[i].key ELSE prev.worstYear]
    IN  st[Len(yearlyCrashes)]

\* .map(([op, crashes]) => [op, crashes.length])
entryCounts(grouped) ==
    [ i \in 1..Len(grouped) |-> [key |-> grouped[i].key, count |-> Len(grouped[i].items)] ]

\* Where the sort puts an entry among entries already in order
sortByCountInsert(sorted, e) ==
    LET p == Cardinality({ i \in 1..Len(sorted) : sorted[i].count >= e.count })
    IN  SubSeq(sorted, 1, p) \o <<e>> \o SubSeq(sorted, p + 1, Len(sorted))

\* .sort((a, b) => b[1] - a[1])
RECURSIVE sortByCount(_)
sortByCount(entries) ==
    IF entries = <<>> THEN <<>>
    ELSE sortByCountInsert(sortByCount(SubSeq(entries, 1, Len(entries) - 1)),
                           entries[Len(entries)])

\* the reducer of countBy: result[item] = (result[item] || 0) + 1
countByPut(result, k) ==
    IF \E i \in 1..Len(result) : SameKey(result[i].key, k)
    THEN [ i \in 1..Len(result) |->
             IF SameKey(result[i].key, k)
             THEN [key |-> k, count |-> result[i].count + 1]
             ELSE result[i] ]
    ELSE LET p == KeyPosition(result, k)
         IN  SubSeq(result, 1, p - 1) \o <<[key |-> k, count |-> 1]>>
               \o SubSeq(result, p, Len(result))

\* countBy(array): the entries of the object, in enumeration order
RECURSIVE countBy(_)
countBy(array) ==
    IF array = <<>> THEN <<>>
    ELSE countByPut(countBy(SubSeq(array, 1, Len(array) - 1)), array[Len(array)])

\* this.filteredData.map(c => c[field]), each value as the property key it
\* becomes in countBy
mapToKeys(array, field) == [ i \in 1..Len(array) |-> PropertyKey(array[i], field) ]

\* x.toFixed(1) of a number that is not negative, in tenths
toFixed1(x) == (20 * x.n + x.d) \div (2 * x.d)

\* the initial value of the reduce that looks for the deadliest crash
deadliestSeed == [Fatalities |-> 0]

\* this.filteredData.reduce((max, crash) =>
\*     crash.Fatalities > max.Fatalities ? crash : max, { Fatalities: 0 })
deadliestOf(array) ==
    LET max[i \in 0..Len(array)] ==
          IF i = 0 THEN deadliestSeed
          ELSE IF array[i].Fatalities > max[i - 1].Fatalities THEN array[i]
          ELSE max[i - 1]
    IN  max[Len(array)]

\* generateAIInsights(): whether it threw, the insights pushed, and the
\* values of const survivalRate and const deadliestCrash where it got to them
generateAIInsights(fd) ==
    LET yearLoop       == insightYearLoop(groupBy(fd, "year"))
        operatorCounts == sortByCount(entryCounts(groupBy(fd, "Operator")))
        totalAboard    == sumAboard(fd)
        totalFatalities == sumField(fd, "Fatalities")
        rate           == insightSurvivalRate(totalFatalities, totalAboard)
        sortedDays     == sortByCount(countBy(mapToKeys(fd, "day_name")))
        sortedSeasons  == sortByCount(countBy(mapToKeys(fd, "season")))
        groundCasualties == sumField(fd, "Ground")
        deadliest      == deadliestOf(fd)
        upToRate ==
            << [title |-> "Safest Year",
                text |-> [year |-> yearLoop.safestYear, crashes |-> yearLoop.minCrashes]],
               [title |-> "Most Dangerous Year",
                text |-> [year |-> yearLoop.worstYear, crashes |-> yearLoop.maxCrashes]] >>
            \o (IF Len(operatorCounts) > 0
                THEN << [title |-> "Most Incidents",
                         text |-> [operator |-> operatorCounts[1].key,
                                   crashes |-> operatorCounts[1].count]] >>
                ELSE <<>>)
            \o << [title |-> "Overall Survival Rate", text |-> [tenths |-> toFixed1(rate)]] >>
    IN  IF sortedDays = <<>>
        THEN \* sortedDays[0] is undefined: reading [0] of it throws
             [threw |-> TRUE, insights |-> upToRate,
              survivalRate |-> rate, deadliestCrash |-> undefined]
        ELSE IF ~Has(deadliest, "Date")
        THEN \* deadliestCrash.Date is undefined: calling getFullYear throws
             [threw |-> TRUE,
              insights |-> upToRate \o
                << [title |-> "Day Pattern",
                    text |-> [most |-> sortedDays[1], least |-> sortedDays[Len(sortedDays)]]],
                   [title |-> "Seasonal Pattern", text |-> [most |-> sortedSeasons[1]]],
                   [title |-> "Ground Impact", text |-> [ground |-> groundCasualties]] >>,
              survivalRate |-> rate, deadliestCrash |-> deadliest]
        ELSE [threw |-> FALSE,
              insights |-> upToRate \o
                << [title |-> "Day Pattern",
                    text |-> [most |-> sortedDays[1], least |-> sortedDays[Len(sortedDays)]]],
                   [title |-> "Seasonal Pattern", text |-> [most |-> sortedSeasons[1]]],
                   [title |-> "Ground Impact", text |-> [ground |-> groundCasualties]],
                   [title |-> "Deadliest Incident",
                    text |-> [fatalities |-> deadliest.Fatalities,
                              operator |-> deadliest.Operator,
                              year |-> deadliest.Date]] >>,
              survivalRate |-> rate, deadliestCrash |-> deadliest]

\* renderAIInsights() on the insights tab: the container is emptied, then
\* gets one card for each insight generateAIInsights returned
renderAIInsights ==
    /\ insightPc = "start"
    /\ \E result \in { generateAIInsights(filteredData) } :
          /\ insightPc' = IF result.threw THEN "threw" ELSE "returned"
          /\ insights' = IF result.threw THEN insights ELSE result.insights
          /\ aiInsights' = IF result.threw THEN <<>>
                           ELSE [ i \in 1..Len(result.insights) |-> result.insights[i].title ]
          /\ survivalRate' = result.survivalRate
          /\ deadliestCrash' = result.deadliestCrash
    /\ UNCHANGED insightRaw

\* raw records of data/crashes.json that carry their own Aboard
InsightRawRecords ==
    { [Location |-> <<op, ",", " ", "X">>, Year |-> 2000, Country |-> "X", Type |-> "Cargo",
       Fatalities |-> c[1], Aboard |-> c[2]] :
        op \in { "A", "B" }, c \in { <<10, 20>>, <<0, 5>>, <<50, 50>> } }

InsightInit ==
    /\ insightRaw \in SeqsUpTo(InsightRawRecords, MaxInsightRecords)
    /\ \E seed \in 0..MaxSeed : data = AD_mapNormalize(insightRaw, seed)
    /\ filteredData = data
    /\ currentTab = "insights"
    /\ initPc = "ready"
    /\ loadFailed = FALSE /\ filtersApplied = FALSE /\ everNarrowed = FALSE
    /\ yearFilter = <<"2", "0", "2", "2">>
    /\ dRegion = "all" /\ dCrashType = "all"
    /\ insightPc = "start"
    /\ insights = <<>> /\ aiInsights = <<>>
    /\ survivalRate = undefined /\ deadliestCrash = undefined

-----------------------------------------------------------------------------
(* groupBy and countBy of dashboard.js on their own *)

\* a normalized record of the given year (with no Year when y < 0) and operator
GroupItem(y, op) ==
    AD_normalizeCrashData(
        IF y < 0 THEN [Location |-> <<op, ",", " ", "X">>, Fatalities |-> 0]
        ELSE [Location |-> <<op, ",", " ", "X">>, Year |-> y, Fatalities |-> 0],
        0, 0)

GroupItems == { GroupItem(y, op) : y \in { -1, 1999, 2001 }, op \in { "A", "B" } }

GroupKeys == { "year", "Operator" }

GroupInit ==
    /\ groupInput \in SeqsUpTo(GroupItems, MaxGroupRecords)
    /\ groupKey \in GroupKeys
    /\ groupPc = "start"
    /\ groupResult = <<>> /\ countResult = <<>>

\* this.groupBy(array, key)
EvalGroupBy ==
    /\ groupPc = "start"
    /\ groupResult' = groupBy(groupInput, groupKey)
    /\ groupPc' = "grouped"
    /\ UNCHANGED <<groupInput, groupKey, countResult>>

\* this.countBy(array.map(c => c[key]))
EvalCountBy ==
    /\ groupPc = "start"
    /\ countResult' = countBy(mapToKeys(groupInput, groupKey))
    /\ groupPc' = "counted"
    /\ UNCHANGED <<groupInput, groupKey, groupResult>>

-----------------------------------------------------------------------------
(* The filters of script.js and dashboard.js as functions of the record set *)

\* the filter with the first record it keeps left out
filterRecordsDroppingFirst(S) ==
    LET kept == SelectSeq(S, LAMBDA c :
                    applyFiltersKeeps(c, UnaryPlusOr(yearMin, 0), UnaryPlusOr(yearMax, 9999),
                                      typeFilter, toLowerCase(regionFilter),
                                      UnaryPlusOr(fatalFilter, 0)))
    IN  IF kept = <<>> THEN kept ELSE Tail(kept)

\* S.filter(...) with the callback of applyFilters of script.js and the
\* values the five inputs hold
filterRecords(S) ==
    SelectSeq(S, LAMBDA c :
        applyFiltersKeeps(c, UnaryPlusOr(yearMin, 0), UnaryPlusOr(yearMax, 9999),
                          typeFilter, toLowerCase(regionFilter),
                          UnaryPlusOr(fatalFilter, 0)))

\* S.filter(...) with the callback of applyFilters of dashboard.js and the
\* values the three controls hold
AD_filterRecords(S) ==
    SelectSeq(S, LAMBDA crash :
        AD_applyFiltersKeeps(crash, parseInt(yearFilter), dRegion, dCrashType))

\* the filter of script.js over crashData
ScriptFilterOnce ==
    /\ refPc = "script"
    /\ refOnce' = filterRecords(crashData)
    /\ refPc' = "script once"
    /\ UNCHANGED refTwice

\* the filter of script.js over its own result
ScriptFilterAgain ==
    /\ refPc = "script once"
    /\ refTwice' = filterRecords(refOnce)
    /\ refPc' = "script twice"
    /\ UNCHANGED refOnce

\* the filter of dashboard.js over this.data
DashFilterOnce ==
    /\ refPc = "dash"
    /\ refOnce' = AD_filterRecords(data)
    /\ refPc' = "dash once"
    /\ UNCHANGED refTwice

\* the filter of dashboard.js over its own result
DashFilterAgain ==
    /\ refPc = "dash once"
    /\ refTwice' = AD_filterRecords(refOnce)
    /\ refPc' = "dash twice"
    /\ UNCHANGED refOnce

-----------------------------------------------------------------------------
(* renderMarkers, updateAnalytics and updateTimeline of script.js *)

\* !x for a number x: 0 and NaN are falsy
Falsy(x) == x.nan \/ x.v = 0

\* if (!crash.Latitude || !crash.Longitude) return;
renderMarkersSkips(crash) == Falsy(crash.Latitude) \/ Falsy(crash.Longitude)

\* the records renderMarkers(data) adds a marker for, in order
renderMarkers(d) == SelectSeq(d, LAMBDA crash : ~renderMarkersSkips(crash))

\* const decade of updateAnalytics: decade[k] = (decade[k] || 0) + 1
updateAnalyticsDecade(d) ==
    countBy([ i \in 1..Len(d) |-> IndexKey((d[i].Year \div 10) * 10) ])

\* const yearly of updateTimeline: yearly[d.Year] = (yearly[d.Year] || 0) + 1
updateTimelineYearly(d) == countBy([ i \in 1..Len(d) |-> IndexKey(d[i].Year) ])

\* renderMarkers(crashData); updateAnalytics(crashData); updateTimeline(crashData)
renderLoaded ==
    /\ markPc = "start"
    /\ markerLayer' = renderMarkers(crashData)
    /\ countText' = Len(crashData)
    /\ fatalitiesText' = sumField(crashData, "Fatalities")
    /\ decadeChart' = updateAnalyticsDecade(crashData)
    /\ timelineChart' = updateTimelineYearly(crashData)
    /\ markPc' = "rendered"

-----------------------------------------------------------------------------
(* renderDataGrid of src/unnamed/part_005 *)

\* Where the sort puts a record among records already in order
sortByYearInsert(sorted, e) ==
    LET p == Cardinality({ i \in 1..Len(sorted) : sorted[i].year.v >= e.year.v })
    IN  SubSeq(sorted, 1, p) \o <<e>> \o SubSeq(sorted, p + 1, Len(sorted))

\* the array after .sort((a, b) => b.year - a.year)
RECURSIVE sortByYear(_)
sortByYear(arr) ==
    IF arr = <<>> THEN <<>>
    ELSE sortByYearInsert(sortByYear(SubSeq(arr, 1, Len(arr) - 1)), arr[Len(arr)])

\* renderDataGrid(): Array.prototype.sort sorts AVIATION_DATA itself and
\* returns it; slice(0, 200) copies the first 200 records
renderDataGrid ==
    /\ gridPc \in {"loaded", "rendered"}
    /\ AVIATION_DATA' = sortByYear(AVIATION_DATA)
    /\ displayedData' = slice0(AVIATION_DATA', 200)
    /\ gridPc' = "rendered"
    /\ UNCHANGED <<aviationLoaded, riskPc, rankedOperators>>

\* raw records of ../data/crashes.json of several years
GridRawRecords ==
    { [Latitude |-> 10, Longitude |-> 20, Year |-> y, Fatalities |-> f, Type |-> "Cargo"] :
        y \in { 1999, 2001, 2005 }, f \in { 0, 10 } }

\* AVIATION_DATA = await loadCrashData() of initDataAndUI has run
GridInit ==
    /\ AVIATION_DATA \in
         { loadCrashDataMap(rawData, seed) :
             rawData \in SeqsUpTo(GridRawRecords, MaxGridRecords), seed \in 0..MaxSeed }
    /\ aviationLoaded = AVIATION_DATA
    /\ riskPc = "start"
    /\ rankedOperators = <<>>
    /\ gridPc = "loaded"
    /\ displayedData = <<>>

-----------------------------------------------------------------------------
(* src/unnamed/part_003: the page with the export dialog.  It declares the
   same crashData and reads the same five inputs as script.js; crashData holds
   the records as fetched. *)

\* (c.Fatalities || 0)
P3_fatalitiesOrZero(c) == IF Has(c, "Fatalities") THEN c.Fatalities ELSE 0

\* updateAnalytics: the text of #avg
P3_updateAnalyticsAvg(d) ==
    LET totalFatal == sumSeq([ i \in 1..Len(d) |-> P3_fatalitiesOrZero(d[i]) ])
    IN  IF Len(d) # 0
        THEN [fixed |-> TRUE, tenths |-> (20 * totalFatal + Len(d)) \div (2 * Len(d))]
        ELSE [fixed |-> FALSE, tenths |-> 0]

\* the callback of crashData.filter in applyFilters and in the export listener
P3_filterKeeps(c, minY, maxY, type, region, minF) ==
    /\ Has(c, "Year") /\ c.Year >= minY
    /\ c.Year <= maxY
    /\ (type = "All" \/ (Has(c, "Type") /\ c.Type = type))
    /\ (region = <<>>
          \/ (Has(c, "Country") /\ c.Country # <<>>
                /\ includes(toLowerCase(c.Country), region)))
    /\ P3_fatalitiesOrZero(c) >= minF

\* crashData.filter(...) with the values the five inputs hold
P3_filtered ==
    SelectSeq(crashData, LAMBDA c :
        P3_filterKeeps(c, UnaryPlusOr(yearMin, 0), UnaryPlusOr(yearMax, 9999),
                       typeFilter, toLowerCase(regionFilter),
                       UnaryPlusOr(fatalFilter, 0)))

\* applyFilters(), the click listener of #applyFilter
P3_applyFilters ==
    /\ shown' = P3_filtered
    /\ avgText' = P3_updateAnalyticsAvg(P3_filtered)
    /\ shownBy' = "apply"
    /\ UNCHANGED <<crashData, loadPc, statsError, yearMin, yearMax, typeFilter,
                   regionFilter, fatalFilter, filterTimeout, timers, nextTimer,
                   nApply, nBursts, exportDialog>>

\* resetFilters(), the click listener of #resetFilter
P3_resetFilters ==
    /\ yearMin' = <<>> /\ yearMax' = <<>> /\ typeFilter' = "All"
    /\ regionFilter' = <<>> /\ fatalFilter' = <<>>
    /\ shown' = crashData
    /\ avgText' = P3_updateAnalyticsAvg(crashData)
    /\ shownBy' = "reset"
    /\ UNCHANGED <<crashData, loadPc, statsError, filterTimeout, timers, nextTimer,
                   nApply, nBursts, exportDialog>>

\* the click listener of #exportData: showExportDialog(filteredData)
P3_exportClick ==
    /\ exportDialog.clicks < MaxClicks
    /\ exportDialog' = [clicks |-> exportDialog.clicks + 1, data |-> P3_filtered,
                        displayed |-> shown]
    /\ UNCHANGED scriptVars

\* loadData() has stored and drawn the fetched records
P3_Init ==
    /\ crashData \in ScriptRawDatasets
    /\ loadPc = "done"
    /\ statsError = FALSE
    /\ yearMin = <<>> /\ yearMax = <<>> /\ typeFilter = "All"
    /\ regionFilter = <<>> /\ fatalFilter = <<>>
    /\ filterTimeout = 0 /\ timers = {} /\ nextTimer = 1
    /\ shown = crashData /\ shownBy = "load"
    /\ avgText = P3_updateAnalyticsAvg(crashData)
    /\ nApply = 0 /\ nBursts = 0
    /\ exportDialog = [clicks |-> 0, data |-> <<>>, displayed |-> <<>>]

-----------------------------------------------------------------------------
(* renderTabCharts and renderDashboard of dashboard.js: which containers a  *)
(* call draws into, and from which filteredData                             *)

\* the containers the renderers of a case of renderTabCharts draw into, in
\* the order of the calls
TabCharts(tabId) ==
    CASE tabId = "overview" ->
            <<"yearlyTrendChart", "fatalityTrendChart", "typeDistributionChart",
              "airlineCrashChart">>
      [] tabId = "globe" -> <<"globeMap">>
      [] tabId = "trends" ->
            <<"monthlyPatternChart", "seasonalChart", "dayOfWeekChart", "decadeChart">>
      [] tabId = "analysis" ->
            <<"crashReasonsChart", "correlationHeatmap", "aircraftTypeChart",
              "survivalRateChart">>
      [] tabId = "costs" ->
            <<"costBreakdownChart", "riskAnalysisChart", "safetyRankingsChart",
              "predictiveTrendChart">>
      [] tabId = "insights" -> <<"aiInsights", "anomalyChart">>

AllCharts == UNION { { TabCharts(t)[i] : i \in 1..Len(TabCharts(t)) } : t \in Tabs }

\* how the renderer of a container ends on the array fd: "plot" after drawing
\* from fd, "keep" without drawing, "throw" by an exception before drawing
ChartOutcome(chart, fd) ==
    LET lacksYear == \E i \in 1..Len(fd) : ~Has(fd[i], "year")
    IN  CASE chart \in { "yearlyTrendChart", "fatalityTrendChart", "survivalRateChart",
                         "anomalyChart" } ->
                \* yearlyData[NaN] is undefined: reading a property of it throws
                IF lacksYear THEN "throw" ELSE "plot"
          [] chart = "predictiveTrendChart" ->
                IF lacksYear THEN "throw"
                ELSE IF Len(anomalyYears(groupBy(fd, "year"))) > 1 THEN "plot"
                ELSE "keep"
          [] chart = "crashReasonsChart" ->
                IF \E i \in 1..Len(fd) : ~Has(fd[i], "Summary") THEN "throw" ELSE "plot"
          [] chart = "aiInsights" ->
                IF generateAIInsights(fd).threw THEN "throw" ELSE "plot"
          [] OTHER -> "plot"

\* the content of a container: nothing, or what was drawn from an array
NotDrawn == [drawn |-> FALSE]
DrawnFrom(fd) == [drawn |-> TRUE, from |-> fd]

\* renderTabCharts(tabId) with this.filteredData = fd: the renderers run in
\* order until one throws; p maps a container to the array it was last drawn
\* from.  renderAIInsights empties its container before it can throw.
renderTabCharts(tabId, fd, p) ==
    LET charts == TabCharts(tabId)
        run[i \in 0..Len(charts)] ==
            IF i = 0 THEN [plots |-> p, threw |-> FALSE]
            ELSE IF run[i - 1].threw THEN run[i - 1]
            ELSE LET o == ChartOutcome(charts[i], fd)
                 IN  [plots |->
                          IF o = "plot"
                          THEN [run[i - 1].plots EXCEPT ![charts[i]] = DrawnFrom(fd)]
                          ELSE IF o = "throw" /\ charts[i] = "aiInsights"
                               THEN [run[i - 1].plots EXCEPT ![charts[i]] = NotDrawn]
                          ELSE run[i - 1].plots,
                      threw |-> o = "throw"]
    IN  run[Len(charts)]

\* renderDashboard(): renderOverviewCharts(), then renderGlobeMap()
renderDashboard(fd, p) ==
    LET overview == renderTabCharts("overview", fd, p)
    IN  IF overview.threw THEN overview.plots
        ELSE renderTabCharts("globe", fd, overview.plots).plots

\* new AviationDashboard(): nothing is drawn yet
TabsInit ==
    /\ DashInit
    /\ headerFrom = NotDrawn
    /\ plots = [ c \in AllCharts |-> NotDrawn ]
    /\ nTabEvents = 0

\* init() after loadData: updateHeaderStats ran in loadData or in
\* createSampleData, then renderDashboard()
initRenders ==
    /\ UNCHANGED nTabEvents
    /\ headerFrom' = DrawnFrom(filteredData')
    /\ plots' = renderDashboard(filteredData', plots)

\* the tail of applyFilters: updateHeaderStats(), renderTabCharts(currentTab)
applyFiltersRenders ==
    /\ nTabEvents < MaxTabEvents
    /\ nTabEvents' = nTabEvents + 1
    /\ headerFrom' = DrawnFrom(filteredData')
    /\ plots' = renderTabCharts(currentTab, filteredData', plots).plots

\* the tail of switchTab: renderTabCharts(tabId)
switchTabRenders ==
    /\ nTabEvents < MaxTabEvents
    /\ nTabEvents' = nTabEvents + 1
    /\ UNCHANGED headerFrom
    /\ plots' = renderTabCharts(currentTab', filteredData, plots).plots

-----------------------------------------------------------------------------
(* fetchWeather of script.js and the popups whose button calls it           *)

\* number of fetch calls of fetchWeather in a run
MaxWeatherRequests == 3

\* the markers renderMarkers drew: the id of their popup and the coordinates
\* the onclick of their button passes
WeatherMarkers ==
    { [id |-> "2001-Paris", lat |-> 48, lon |-> 2],
      [id |-> "1999-Paris", lat |-> 48, lon |-> 2],
      [id |-> "2000-New-York", lat |-> 40, lon |-> -74] }

DigitChars == <<"0", "1", "2", "3", "4", "5", "6", "7", "8", "9">>

\* the text a template literal puts in for an integer
RECURSIVE NumberToString(_)
NumberToString(n) ==
    IF n < 0 THEN <<"-">> \o NumberToString(0 - n)
    ELSE IF n < 10 THEN <<DigitChars[n + 1]>>
    ELSE Append(NumberToString(n \div 10), DigitChars[(n % 10) + 1])

\* const key = `${lat}_${lon}`
weatherKey(lat, lon) == NumberToString(lat) \o <<"_">> \o NumberToString(lon)

\* what the await of fetch and of res.json() can deliver: a rejection, a
\* response that is not ok, an ok response with a body w
WeatherResponses ==
    { [status |-> "rejected", w |-> <<>>],
      [status |-> "not ok", w |-> <<>>],
      [status |-> "ok", w |-> <<>>],
      [status |-> "ok", w |-> [main |-> [temp |-> 21, humidity |-> 40], wind |-> [speed |-> 3]]],
      [status |-> "ok", w |-> [main |-> [temp |-> 4, humidity |-> 90], wind |-> [speed |-> 7]]] }

\* the try block gets to weatherCache.set: the fetch resolved, res.ok, and
\* w.main and w.wind can be read
weatherSucceeds(res) ==
    res.status = "ok" /\ Has(res.w, "main") /\ Has(res.w, "wind")

\* const html
weatherHtml(w) ==
    <<"Temp: ", w.main.temp, "C<br>Humidity: ", w.main.humidity, "%<br>Wind: ",
      w.wind.speed, " m/s">>

Loading == <<"Loading...">>
WeatherUnavailable == <<"Weather unavailable">>

\* a cache that is never consulted
weatherCacheHasNever(cache, key) == FALSE

\* weatherCache.has(key)
weatherCacheHas(cache, key) == key \in DOMAIN cache

\* weatherCache.set(key, html)
weatherCacheSet(cache, key, html) ==
    [ k \in (DOMAIN cache) \cup {key} |-> IF k = key THEN html ELSE cache[k] ]

\* the page with its markers drawn, no popup open
WeatherInit ==
    /\ weatherCache = <<>>
    /\ popupOpen = "none"
    /\ weatherEl = [ id \in { m.id : m \in WeatherMarkers } |-> Loading ]
    /\ inFlight = {}
    /\ requests = 0
    /\ weatherLast = [kind |-> "none"]

\* the user opens the popup of a marker, which closes the open one, or closes
\* the open one; the element weather-<id> is in the document while its
\* popup is open
popupClick ==
    /\ \E id \in { m.id : m \in WeatherMarkers } \cup {"none"} :
          id # popupOpen /\ popupOpen' = id
    /\ weatherLast' = [kind |-> "popup"]
    /\ UNCHANGED <<weatherCache, weatherEl, inFlight, requests>>

\* a click on Load Weather in the open popup: fetchWeather(lat, lon, id) up to
\* its return from the cache or its await of fetch
fetchWeatherCall ==
    \E m \in WeatherMarkers :
    \E key \in { weatherKey(m.lat, m.lon) } :
      /\ popupOpen = m.id
      /\ weatherLast' = [kind |-> "call", key |-> key, id |-> m.id,
                         cache |-> weatherCache, requests |-> requests]
      /\ IF weatherCacheHas(weatherCache, key)
         THEN /\ weatherEl' = [weatherEl EXCEPT ![m.id] = weatherCache[key]]
              /\ UNCHANGED <<inFlight, requests>>
         ELSE /\ requests < MaxWeatherRequests
              /\ requests' = requests + 1
              /\ inFlight' = inFlight \cup { [n |-> requests + 1, key |-> key, id |-> m.id] }
              /\ UNCHANGED weatherEl
      /\ UNCHANGED <<weatherCache, popupOpen>>

\* a pending fetchWeather call resumes with the outcome of its request.  With
\* the popup closed getElementById returns null and the assignment to
\* innerHTML throws, in the try block after weatherCache.set and again in the
\* catch block.
fetchWeatherResume ==
    \E call \in inFlight, res \in WeatherResponses :
      /\ inFlight' = inFlight \ {call}
      /\ IF weatherSucceeds(res)
         THEN /\ weatherCache' = weatherCacheSet(weatherCache, call.key, weatherHtml(res.w))
              /\ weatherEl' = IF popupOpen = call.id
                              THEN [weatherEl EXCEPT ![call.id] = weatherHtml(res.w)]
                              ELSE weatherEl
              /\ weatherLast' = [kind |-> "stored", key |-> call.key, id |-> call.id,
                                 cache |-> weatherCache, requests |-> requests]
         ELSE /\ UNCHANGED weatherCache
              /\ weatherEl' = IF popupOpen = call.id
                              THEN [weatherEl EXCEPT ![call.id] = WeatherUnavailable]
                              ELSE weatherEl
              /\ weatherLast' = [kind |-> "failed", key |-> call.key, id |-> call.id,
                                 cache |-> weatherCache, requests |-> requests]
      /\ UNCHANGED <<popupOpen, requests>>

-----------------------------------------------------------------------------
(* The specifications.  Each one runs one part of the program; the variables *)
(* of the parts it does not run keep the values given here.                  *)

ScriptIdle ==
    /\ crashData = <<>> /\ loadPc = "idle" /\ statsError = FALSE
    /\ yearMin = <<>> /\ yearMax = <<>> /\ typeFilter = "All"
    /\ regionFilter = <<>> /\ fatalFilter = <<>>
    /\ filterTimeout = 0 /\ timers = {} /\ nextTimer = 1
    /\ shown = <<>> /\ shownBy = "none"
    /\ avgText = [fixed |-> FALSE, tenths |-> 0]
    /\ nApply = 0 /\ nBursts = 0

DashIdle ==
    /\ data = <<>> /\ filteredData = <<>>
    /\ currentTab = "overview" /\ initPc = "idle"
    /\ loadFailed = FALSE /\ filtersApplied = FALSE /\ everNarrowed = FALSE
    /\ yearFilter = <<>> /\ dRegion = "all" /\ dCrashType = "all"

NormIdle ==
    /\ rawCrash = <<>> /\ norm1 = <<>> /\ norm2 = <<>> /\ normPc = "idle"

AnomIdle ==
    /\ anomPc = "idle"
    /\ chartYears = <<>> /\ chartCounts = <<>>
    /\ avgCrashes = [nan |-> FALSE, num |-> 0, den |-> 1, number |-> f64Zero]
    /\ stdDev = [nan |-> FALSE, sqNum |-> 0, sqDen |-> 1, number |-> f64Zero]
    /\ anomalies = <<>>

RateIdle ==
    /\ rateFatalities = 0 /\ rateAboard = 0 /\ ratePc = "idle" /\ rateValue = Zero

SafetyIdle ==
    /\ safetyPc = "idle" /\ safetyScores = <<>> /\ topSafety = <<>>

RiskIdle ==
    /\ AVIATION_DATA = <<>> /\ riskPc = "idle" /\ rankedOperators = <<>>

TrendIdle ==
    /\ trendPc = "idle" /\ trendYears = <<>> /\ trendCounts = <<>>
    /\ trendSlope = [k |-> "num", n |-> 0, d |-> 1]
    /\ futureYears = <<>> /\ futureCounts = <<>>

InsightIdle ==
    /\ insightRaw = <<>> /\ insightPc = "idle" /\ insights = <<>> /\ aiInsights = <<>>
    /\ survivalRate = [isUndefined |-> TRUE] /\ deadliestCrash = [isUndefined |-> TRUE]

GroupIdle ==
    /\ groupInput = <<>> /\ groupKey = "" /\ groupPc = "idle"
    /\ groupResult = <<>> /\ countResult = <<>>

RefilterIdle == refPc = "idle" /\ refOnce = <<>> /\ refTwice = <<>>

MarkIdle ==
    /\ markPc = "idle" /\ markerLayer = <<>> /\ countText = 0 /\ fatalitiesText = 0
    /\ decadeChart = <<>> /\ timelineChart = <<>>

GridIdle == gridPc = "idle" /\ aviationLoaded = <<>> /\ displayedData = <<>>

ResetIdle == timerAtReset = 0

ExportIdle == exportDialog = [clicks |-> 0, data |-> <<>>, displayed |-> <<>>]

TabsIdle == headerFrom = <<>> /\ plots = <<>> /\ nTabEvents = 0

WeatherIdle ==
    /\ weatherCache = <<>> /\ popupOpen = "none" /\ weatherEl = <<>>
    /\ inFlight = {} /\ requests = 0 /\ weatherLast = [kind |-> "none"]

TailIdle == ExportIdle /\ TabsIdle /\ WeatherIdle

LateIdle == GroupIdle /\ RefilterIdle /\ MarkIdle /\ GridIdle /\ ResetIdle /\ TailIdle

ChartIdle == RateIdle /\ SafetyIdle /\ RiskIdle /\ TrendIdle /\ InsightIdle /\ LateIdle

\* the map page of script.js under user events
Init == ScriptInit /\ DashIdle /\ NormIdle /\ AnomIdle /\ ChartIdle

Next ==
    \/ loadDataOk /\ UNCHANGED <<dashVars, normVars, anomVars, chartVars>>
    \/ loadDataFail /\ UNCHANGED <<dashVars, normVars, anomVars, chartVars>>
    \/ EditInputs /\ UNCHANGED <<dashVars, normVars, anomVars, chartVars>>
    \/ applyFiltersDebounced /\ UNCHANGED <<dashVars, normVars, anomVars, chartVars>>
    \/ TimerFires /\ UNCHANGED <<dashVars, normVars, anomVars, chartVars>>
    \/ resetFilterClick /\ UNCHANGED <<dashVars, normVars, anomVars, chartVars>>

Spec == Init /\ [][Next]_vars

\* applyFilters of script.js as a function of crashData and the five inputs
InitFilter == FilterInit /\ DashIdle /\ NormIdle /\ AnomIdle /\ ChartIdle

NextFilter == FilterStep /\ UNCHANGED <<dashVars, normVars, anomVars, chartVars>>

SpecFilter == InitFilter /\ [][NextFilter]_vars

\* the dashboard under user events
InitDash == DashInit /\ ScriptIdle /\ NormIdle /\ AnomIdle /\ ChartIdle

NextDash ==
    \/ AD_loadDataOk /\ UNCHANGED <<scriptVars, normVars, anomVars, chartVars>>
    \/ AD_loadDataCatch /\ UNCHANGED <<scriptVars, normVars, anomVars, chartVars>>
    \/ yearFilterInput /\ UNCHANGED <<scriptVars, normVars, anomVars, chartVars>>
    \/ regionFilterChange /\ UNCHANGED <<scriptVars, normVars, anomVars, chartVars>>
    \/ crashTypeFilterChange /\ UNCHANGED <<scriptVars, normVars, anomVars, chartVars>>
    \/ switchTab /\ UNCHANGED <<scriptVars, normVars, anomVars, chartVars>>

SpecDash == InitDash /\ [][NextDash]_vars

\* the normalizer as a function of a raw record and its random draws
InitNorm == NormInit /\ ScriptIdle /\ DashIdle /\ AnomIdle /\ ChartIdle

NextNorm ==
    \/ NormalizeOnce /\ UNCHANGED <<scriptVars, dashVars, anomVars, chartVars>>
    \/ NormalizeAgain /\ UNCHANGED <<scriptVars, dashVars, anomVars, chartVars>>

SpecNorm == InitNorm /\ [][NextNorm]_vars

\* the anomaly chart as a function of the filtered set
InitAnomaly == AnomalyInit /\ ScriptIdle /\ NormIdle /\ ChartIdle

NextAnomaly == renderAnomalyChart /\ UNCHANGED <<scriptVars, dashVars, normVars, chartVars>>

SpecAnomaly == InitAnomaly /\ [][NextAnomaly]_vars

\* the rate expressions as functions of the two totals
InitRate ==
    /\ RateInit /\ ScriptIdle /\ DashIdle /\ NormIdle /\ AnomIdle /\ SafetyIdle /\ RiskIdle /\ TrendIdle /\ InsightIdle /\ LateIdle

NextRate ==
    \/ EvalDecadeFatalityRate /\ UNCHANGED <<scriptVars, dashVars, normVars, anomVars, safetyVars, riskVars, trendVars, insightVars, lateVars>>
    \/ EvalChartSurvivalRate /\ UNCHANGED <<scriptVars, dashVars, normVars, anomVars, safetyVars, riskVars, trendVars, insightVars, lateVars>>
    \/ EvalRiskFatalityRate /\ UNCHANGED <<scriptVars, dashVars, normVars, anomVars, safetyVars, riskVars, trendVars, insightVars, lateVars>>
    \/ EvalSafetyFatalityRate /\ UNCHANGED <<scriptVars, dashVars, normVars, anomVars, safetyVars, riskVars, trendVars, insightVars, lateVars>>
    \/ EvalInsightSurvivalRate /\ UNCHANGED <<scriptVars, dashVars, normVars, anomVars, safetyVars, riskVars, trendVars, insightVars, lateVars>>

SpecRate == InitRate /\ [][NextRate]_vars

\* the safety ranking as a function of the filtered set
InitSafety ==
    /\ SafetyInit /\ ScriptIdle /\ NormIdle /\ AnomIdle /\ RateIdle /\ RiskIdle /\ TrendIdle /\ InsightIdle /\ LateIdle

NextSafety ==
    renderSafetyRankingsChart
        /\ UNCHANGED <<scriptVars, dashVars, normVars, anomVars, rateVars, riskVars, trendVars, insightVars, lateVars>>

SpecSafety == InitSafety /\ [][NextSafety]_vars

\* the risk ranking of part_005 as a function of the loaded data
InitRisk ==
    /\ RiskInit /\ ScriptIdle /\ DashIdle /\ NormIdle /\ AnomIdle /\ RateIdle /\ SafetyIdle /\ TrendIdle /\ InsightIdle /\ LateIdle

NextRisk ==
    renderOperatorRiskRanking
        /\ UNCHANGED <<scriptVars, dashVars, normVars, anomVars, rateVars, safetyVars, trendVars, insightVars, lateVars>>

SpecRisk == InitRisk /\ [][NextRisk]_vars

\* the forecast chart over a loaded dashboard
InitTrend ==
    /\ TrendInit /\ ScriptIdle /\ NormIdle /\ AnomIdle /\ RateIdle /\ SafetyIdle /\ RiskIdle /\ InsightIdle /\ LateIdle

NextTrend ==
    renderPredictiveTrendChart
        /\ UNCHANGED <<scriptVars, dashVars, normVars, anomVars, rateVars, safetyVars, riskVars, insightVars, lateVars>>

SpecTrend == InitTrend /\ [][NextTrend]_vars

\* the insights over a dataset loaded from data/crashes.json
InitInsights ==
    /\ InsightInit /\ ScriptIdle /\ NormIdle /\ AnomIdle
    /\ RateIdle /\ SafetyIdle /\ RiskIdle /\ TrendIdle /\ LateIdle

NextInsights ==
    renderAIInsights
        /\ UNCHANGED <<scriptVars, dashVars, normVars, anomVars,
                       rateVars, safetyVars, riskVars, trendVars, lateVars>>

SpecInsights == InitInsights /\ [][NextInsights]_vars

\* groupBy and countBy as functions of their arguments
InitGroup ==
    /\ GroupInit /\ ScriptIdle /\ DashIdle /\ NormIdle /\ AnomIdle
    /\ RateIdle /\ SafetyIdle /\ RiskIdle /\ TrendIdle /\ InsightIdle
    /\ RefilterIdle /\ MarkIdle /\ GridIdle /\ ResetIdle /\ TailIdle

NextGroup ==
    \/ EvalGroupBy /\ UNCHANGED <<scriptVars, dashVars, normVars, anomVars,
                                  rateVars, safetyVars, riskVars, trendVars, insightVars,
                                  refVars, markVars, gridVars, timerAtReset, tailVars>>
    \/ EvalCountBy /\ UNCHANGED <<scriptVars, dashVars, normVars, anomVars,
                                  rateVars, safetyVars, riskVars, trendVars, insightVars,
                                  refVars, markVars, gridVars, timerAtReset, tailVars>>

SpecGroup == InitGroup /\ [][NextGroup]_vars

\* the page of script.js with its data loaded and the inputs filled in, or the
\* dashboard with its data loaded and the controls set
RefilterInit ==
    /\ \/ /\ FilterInit
          /\ DashIdle
          /\ refPc = "script"
       \/ /\ ScriptIdle
          /\ \E raw \in DashRawDatasets, seed \in 0..MaxSeed :
                /\ \A i \in 1..Len(raw) : ~Threw(AD_mapNormalize(raw, seed)[i])
                /\ data = AD_mapNormalize(raw, seed)
          /\ filteredData = data
          /\ currentTab = "overview"
          /\ initPc = "ready"
          /\ loadFailed = FALSE /\ filtersApplied = FALSE /\ everNarrowed = FALSE
          /\ yearFilter \in DashYearInputs
          /\ dRegion \in DashRegions /\ dCrashType \in DashCrashTypes
          /\ refPc = "dash"
    /\ refOnce = <<>> /\ refTwice = <<>>

\* the two filters as functions of the record set and the configuration
InitRefilter ==
    /\ RefilterInit /\ NormIdle /\ AnomIdle
    /\ RateIdle /\ SafetyIdle /\ RiskIdle /\ TrendIdle /\ InsightIdle
    /\ GroupIdle /\ MarkIdle /\ GridIdle /\ ResetIdle /\ TailIdle

RefilterRest == <<scriptVars, dashVars, normVars, anomVars,
                  rateVars, safetyVars, riskVars, trendVars, insightVars, groupVars,
                  markVars, gridVars, timerAtReset, tailVars>>

NextRefilter ==
    \/ ScriptFilterOnce /\ UNCHANGED RefilterRest
    \/ ScriptFilterAgain /\ UNCHANGED RefilterRest
    \/ DashFilterOnce /\ UNCHANGED RefilterRest
    \/ DashFilterAgain /\ UNCHANGED RefilterRest

SpecRefilter == InitRefilter /\ [][NextRefilter]_vars

\* the page of script.js drawing what it loaded
InitMarkers ==
    /\ FilterInit /\ DashIdle /\ NormIdle /\ AnomIdle
    /\ RateIdle /\ SafetyIdle /\ RiskIdle /\ TrendIdle /\ InsightIdle
    /\ GroupIdle /\ RefilterIdle /\ GridIdle /\ ResetIdle /\ TailIdle
    /\ markPc = "start" /\ markerLayer = <<>> /\ countText = 0 /\ fatalitiesText = 0
    /\ decadeChart = <<>> /\ timelineChart = <<>>

NextMarkers ==
    renderLoaded
        /\ UNCHANGED <<scriptVars, dashVars, normVars, anomVars,
                       rateVars, safetyVars, riskVars, trendVars, insightVars,
                       groupVars, refVars, gridVars, timerAtReset, tailVars>>

SpecMarkers == InitMarkers /\ [][NextMarkers]_vars

\* the page of part_005 rendering over the data it loaded
InitGrid ==
    /\ GridInit /\ ScriptIdle /\ DashIdle /\ NormIdle /\ AnomIdle
    /\ RateIdle /\ SafetyIdle /\ TrendIdle /\ InsightIdle
    /\ GroupIdle /\ RefilterIdle /\ MarkIdle /\ ResetIdle /\ TailIdle

GridRest == <<scriptVars, dashVars, normVars, anomVars,
              rateVars, safetyVars, trendVars, insightVars, groupVars, refVars, markVars,
              timerAtReset, tailVars>>

NextGrid ==
    \/ renderDataGrid /\ UNCHANGED GridRest
    \/ renderOperatorRiskRanking /\ UNCHANGED <<GridRest, gridVars>>

SpecGrid == InitGrid /\ [][NextGrid]_vars

\* the page of script.js under user events, with the clicks on reset recorded
InitReset ==
    /\ ScriptInit /\ DashIdle /\ NormIdle /\ AnomIdle
    /\ RateIdle /\ SafetyIdle /\ RiskIdle /\ TrendIdle /\ InsightIdle
    /\ GroupIdle /\ RefilterIdle /\ MarkIdle /\ GridIdle /\ TailIdle
    /\ timerAtReset = 0

ResetRest == <<dashVars, normVars, anomVars,
               rateVars, safetyVars, riskVars, trendVars, insightVars,
               groupVars, refVars, markVars, gridVars, tailVars>>

NextReset ==
    \/ loadDataOk /\ UNCHANGED <<ResetRest, timerAtReset>>
    \/ loadDataFail /\ UNCHANGED <<ResetRest, timerAtReset>>
    \/ EditInputs /\ UNCHANGED <<ResetRest, timerAtReset>>
    \/ applyFiltersDebounced /\ UNCHANGED <<ResetRest, timerAtReset>>
    \/ TimerFires /\ UNCHANGED <<ResetRest, timerAtReset>>
    \/ resetFilterClick /\ timerAtReset' = nextTimer /\ UNCHANGED ResetRest

SpecReset == InitReset /\ [][NextReset]_vars

\* the page of part_003 under edits of the inputs and clicks on apply, reset
\* and export
InitExport ==
    /\ P3_Init /\ DashIdle /\ NormIdle /\ AnomIdle
    /\ RateIdle /\ SafetyIdle /\ RiskIdle /\ TrendIdle /\ InsightIdle
    /\ GroupIdle /\ RefilterIdle /\ MarkIdle /\ GridIdle /\ ResetIdle
    /\ TabsIdle /\ WeatherIdle

ExportRest == <<dashVars, normVars, anomVars,
                rateVars, safetyVars, riskVars, trendVars, insightVars,
                groupVars, refVars, markVars, gridVars, timerAtReset,
                tabVars, weatherVars>>

NextExport ==
    \/ EditInputs /\ UNCHANGED <<ExportRest, exportDialog>>
    \/ P3_applyFilters /\ UNCHANGED ExportRest
    \/ P3_resetFilters /\ UNCHANGED ExportRest
    \/ P3_exportClick /\ UNCHANGED ExportRest

SpecExport == InitExport /\ [][NextExport]_vars

\* the dashboard under user events, with what it drew recorded
InitTabs ==
    /\ TabsInit /\ ScriptIdle /\ NormIdle /\ AnomIdle
    /\ RateIdle /\ SafetyIdle /\ RiskIdle /\ TrendIdle /\ InsightIdle
    /\ GroupIdle /\ RefilterIdle /\ MarkIdle /\ GridIdle /\ ResetIdle
    /\ ExportIdle /\ WeatherIdle

TabsRest == <<scriptVars, normVars, anomVars,
              rateVars, safetyVars, riskVars, trendVars, insightVars,
              groupVars, refVars, markVars, gridVars, timerAtReset,
              exportDialog, weatherVars>>

NextTabs ==
    \/ AD_loadDataOk /\ initRenders /\ UNCHANGED TabsRest
    \/ AD_loadDataCatch /\ initRenders /\ UNCHANGED TabsRest
    \/ yearFilterInput /\ applyFiltersRenders /\ UNCHANGED TabsRest
    \/ regionFilterChange /\ applyFiltersRenders /\ UNCHANGED TabsRest
    \/ crashTypeFilterChange /\ applyFiltersRenders /\ UNCHANGED TabsRest
    \/ switchTab /\ switchTabRenders /\ UNCHANGED TabsRest

SpecTabs == InitTabs /\ [][NextTabs]_vars

\* the popups of the map page and their weather requests
InitWeather ==
    /\ WeatherInit /\ ScriptIdle /\ DashIdle /\ NormIdle /\ AnomIdle
    /\ RateIdle /\ SafetyIdle /\ RiskIdle /\ TrendIdle /\ InsightIdle
    /\ GroupIdle /\ RefilterIdle /\ MarkIdle /\ GridIdle /\ ResetIdle
    /\ ExportIdle /\ TabsIdle

WeatherRest == <<scriptVars, dashVars, normVars, anomVars,
                 rateVars, safetyVars, riskVars, trendVars, insightVars,
                 groupVars, refVars, markVars, gridVars, timerAtReset,
                 exportDialog, tabVars>>

NextWeather ==
    \/ popupClick /\ UNCHANGED WeatherRest
    \/ fetchWeatherCall /\ UNCHANGED WeatherRest
    \/ fetchWeatherResume /\ UNCHANGED WeatherRest

SpecWeather == InitWeather /\ [][NextWeather]_vars

-----------------------------------------------------------------------------
(* The claims *)

\* C1 as stated: what the claim says applyFilters keeps, reading an empty
\* bound as no bound and a numeric bound, 0 included, as that number
C1_Keeps(c) ==
    /\ (yearMin = <<>> \/ DecimalValue(yearMin) <= c.Year)
    /\ (yearMax = <<>> \/ c.Year <= DecimalValue(yearMax))
    /\ (regionFilter = <<>>
          \/ includes(toLowerCase(c.Country), toLowerCase(regionFilter)))
    /\ (typeFilter = "All" \/ c.Type = typeFilter)
    /\ c.Fatalities >= (IF fatalFilter = <<>> THEN 0 ELSE DecimalValue(fatalFilter))

\* C1: applyFilters of script.js keeps exactly the records with
\* minYear <= Year <= maxYear, a Country containing the region, the chosen
\* Type and Fatalities >= minFatalities, for every setting of the five
\* inputs, bounds equal to 0 included.
C1_FilterKeepsExactlyTheMatching ==
    shownBy = "apply" => shown = SelectSeq(crashData, C1_Keeps)

\* C2: what the most recent filter values select
C2_Selected(crash) ==
    /\ (parseInt(yearFilter).nan \/ ~Has(crash, "year")
          \/ crash.year <= parseInt(yearFilter).v)
    /\ (dRegion = "all" \/ (Has(crash, "Country") /\ crash.Country = dRegion))
    /\ (dCrashType = "all" \/ crash.Type = dCrashType)

\* C2: once applyFilters has run, filteredData is the order-preserving
\* subsequence of the full data selected by the most recent filter values
\* alone, whatever was filtered before.
C2_FilteredFromFullData ==
    filtersApplied => filteredData = SelectSeq(data, C2_Selected)

\* C2 witness: an earlier call had left records out, and the filter in force
\* now selects all of a dataset of two records or more
C2_Witness ==
    /\ filtersApplied /\ everNarrowed
    /\ Len(data) >= 2 /\ filteredData = data

\* C3: while the fetch of loadData is pending, nothing has been handed to
\* renderMarkers, updateAnalytics and updateTimeline.
C3_NothingComputedWhilePending ==
    loadPc = "fetching" => shownBy = "none"

\* C4: at most one applyFilters timer is pending, it is the one of the last
\* call, and every burst of applyFiltersDebounced calls has run applyFilters
\* exactly once as soon as its timer has fired: the executions so far and the
\* pending timer add up to the bursts so far.
C4_DebounceCoalesces ==
    /\ Cardinality(timers) <= 1
    /\ timers \subseteq {filterTimeout}
    /\ nApply + Cardinality(timers) = nBursts

\* C4 witness: three calls, each before the previous timer fired, then the
\* one execution
C4_Witness ==
    /\ nextTimer = 4 /\ nBursts = 1
    /\ nApply = 1 /\ timers = {}

\* C5: after a failed load the page shows the error and works on a
\* non-empty synthetic dataset, which is also the set displayed.
C5_FailedLoadFallsBack ==
    loadPc = "failed" => (statsError /\ Len(crashData) > 0 /\ shown = crashData)

Seasons == { "Winter", "Spring", "Summer", "Fall" }

\* C6: normalizing any partial raw record returns a record, and the record
\* has Aboard >= Fatalities, decade = floor(year/10)*10 and a season.
C6_NormalizerTotal ==
    normPc \in {"once", "twice"} =>
        /\ ~Threw(norm1)
        /\ norm1.Aboard >= norm1.Fatalities
        /\ Has(norm1, "year")
        /\ ~norm1.decade.nan
        /\ norm1.decade.v = (norm1.year \div 10) * 10
        /\ norm1.season \in Seasons

\* C7: normalizing a normalized record gives the same record, the estimated
\* Aboard and Ground included.
C7_NormalizeIdempotent ==
    normPc = "twice" => norm2 = norm1

SpikeSeries == <<10, 10, 10, 10, 100>>

\* C8 as stated: for the yearly counts 10, 10, 10, 10, 100 the last period is
\* flagged, with kind High.
C8_SpikeFlaggedHigh ==
    (anomPc = "rendered" /\ chartCounts = SpikeSeries) =>
        \E i \in 1..Len(anomalies) :
            /\ anomalies[i].year = chartYears[Len(chartYears)]
            /\ anomalies[i].type = "High Crashes"

\* C8 amended: for the yearly counts 10, 10, 10, 10, 100 the mean is 28 and
\* the standard deviation 36, so the last period lies exactly 2 standard
\* deviations from the mean and no period is flagged.
C8_SpikeNotFlagged ==
    (anomPc = "rendered" /\ chartCounts = SpikeSeries) =>
        /\ ~avgCrashes.nan /\ avgCrashes.num = 28 * avgCrashes.den
        /\ avgCrashes.number = f64OfInt(28)
        /\ ~stdDev.nan /\ stdDev.sqNum = 36 * 36 * stdDev.sqDen
        /\ stdDev.number = f64OfInt(36)
        /\ anomalies = <<>>

C8_Witness ==
    anomPc = "rendered" /\ chartCounts = SpikeSeries

\* C9: when the standard deviation of the yearly counts is 0 (all periods
\* have the same count), no period is flagged.
C9_ConstantSeriesNotFlagged ==
    (anomPc = "rendered" /\ ~stdDev.nan /\ stdDev.sqNum = 0) => anomalies = <<>>

\* C9 witness: two periods or more, each with the same count of two or more
C9_Witness ==
    /\ anomPc = "rendered"
    /\ ~stdDev.nan /\ stdDev.sqNum = 0
    /\ avgCrashes.den >= 2 /\ avgCrashes.num >= 2 * avgCrashes.den
    /\ anomalies = <<>>

\* C10: for an empty filtered set, avgCrashes and stdDev of
\* renderAnomalyChart are 0.
C10_EmptySeriesGivesZero ==
    (anomPc = "rendered" /\ filteredData = <<>>) =>
        /\ ~avgCrashes.nan /\ avgCrashes.num = 0
        /\ ~stdDev.nan /\ stdDev.sqNum = 0


C12_Group(op) == SelectSeq(filteredData, LAMBDA c : c.Operator = op)

\* C12: max(0, 100 - (0.3 * min(C/10*100, 100) + 0.7 * min(2R, 100))) with
\* R = F/A*100
C12_Score(C, F, A) ==
    LET R   == IF A > 0 THEN Frac(100 * F, A) ELSE Zero
        cc  == IF 10 * C < 100 THEN 10 * C ELSE 100
        fc  == IF 2 * R.n < 100 * R.d THEN Frac(2 * R.n, R.d) ELSE Frac(100, 1)
        raw == Frac(3 * cc * fc.d + 7 * fc.n, 10 * fc.d)
    IN  IF raw.n >= 100 * raw.d THEN Zero ELSE Frac(100 * raw.d - raw.n, raw.d)

\* C12: every operator of the filtered set has a score entry, and the entry of
\* an operator with crash count C, fatality total F and aboard total A has
\* safetyScore = max(0, 100 - (0.3*min(C/10*100, 100) + 0.7*min(2R, 100))),
\* R = F/A*100, which lies in 0..100.
C12_SafetyScoreFormula ==
    safetyPc = "rendered" =>
        /\ \A c \in 1..Len(filteredData) :
              \E i \in 1..Len(safetyScores) :
                  safetyScores[i].operator = filteredData[c].Operator
        /\ \A i \in 1..Len(safetyScores) :
              LET e == safetyScores[i]
                  g == C12_Group(e.operator)
              IN  /\ Len(g) > 0
                  /\ FracEq(e.safetyScore,
                            C12_Score(Len(g), sumField(g, "Fatalities"), sumAboard(g)))
                  /\ e.safetyScore.n >= 0
                  /\ e.safetyScore.n <= 100 * e.safetyScore.d

\* C12 witness: an operator with two crashes or more and some fatalities,
\* scored strictly between 0 and 100
C12_Witness ==
    /\ safetyPc = "rendered"
    /\ \E i \in 1..Len(safetyScores) :
          /\ safetyScores[i].crashCount >= 2
          /\ safetyScores[i].totalFatalities > 0
          /\ safetyScores[i].safetyScore.n > 0
          /\ safetyScores[i].safetyScore.n < 100 * safetyScores[i].safetyScore.d

\* C13: the ladder of the claim
C13_Ladder(score) ==
    CASE score.n >= 90 * score.d -> "A+"
      [] score.n < 90 * score.d /\ score.n >= 80 * score.d -> "A"
      [] score.n < 80 * score.d /\ score.n >= 70 * score.d -> "B"
      [] score.n < 70 * score.d /\ score.n >= 60 * score.d -> "C"
      [] score.n < 60 * score.d /\ score.n >= 50 * score.d -> "D"
      [] OTHER -> "F"

\* C13: the grade of every entry is the ladder's grade of its score; an entry
\* with fatality rate >= 50% and crash count >= 10 has score 0 and grade F;
\* the score entry of an operator with no crashes and no fatalities has score
\* 100 and grade A+.
C13_GradeLadder ==
    safetyPc = "rendered" =>
        /\ \A i \in 1..Len(safetyScores) :
              LET e == safetyScores[i]
              IN  /\ e.grade = C13_Ladder(e.safetyScore)
                  /\ (e.crashCount >= 10 /\ e.fatalityRate.n >= 50 * e.fatalityRate.d)
                        => (IsZero(e.safetyScore) /\ e.grade = "F")
                  /\ (e.crashCount = 0 /\ e.totalFatalities = 0)
                        => (FracEq(e.safetyScore, Frac(100, 1)) /\ e.grade = "A+")
        /\ FracEq(safetyEntry(<<"A">>, <<>>).safetyScore, Frac(100, 1))
        /\ safetyEntry(<<"A">>, <<>>).grade = "A+"

\* C13 witness: an operator with ten crashes and a fatality rate of 50%,
\* scored 0 and graded F
C13_Witness ==
    /\ safetyPc = "rendered"
    /\ \E i \in 1..Len(safetyScores) :
          /\ safetyScores[i].crashCount >= 10
          /\ safetyScores[i].fatalityRate.n >= 50 * safetyScores[i].fatalityRate.d
          /\ IsZero(safetyScores[i].safetyScore)
          /\ safetyScores[i].grade = "F"

\* C14: the order of entity names
C14_CharIndex(c) == CHOOSE i \in 1..Len(Letters) : Letters[i] = c

RECURSIVE C14_NameLess(_, _)
C14_NameLess(a, b) ==
    IF a = <<>> THEN b # <<>>
    ELSE IF b = <<>> THEN FALSE
    ELSE IF Head(a) # Head(b) THEN C14_CharIndex(Head(a)) < C14_CharIndex(Head(b))
    ELSE C14_NameLess(Tail(a), Tail(b))

\* C14: the ranking lists the entities in descending order of safety score,
\* and entities with equal scores in the order of their names.
C14_RankedByScoreThenName ==
    safetyPc = "rendered" =>
        \A i \in 1..(Len(topSafety) - 1) :
            \/ FracLess(topSafety[i + 1].safetyScore, topSafety[i].safetyScore)
            \/ /\ FracEq(topSafety[i + 1].safetyScore, topSafety[i].safetyScore)
               /\ C14_NameLess(topSafety[i].operator, topSafety[i + 1].operator)


\* C15: the records of an operator, and its counts
C15_Records(op) == SelectSeq(AVIATION_DATA, LAMBDA d : d.operator = op)

C15_Operators == { AVIATION_DATA[i].operator : i \in 1..Len(AVIATION_DATA) }

\* C15 as stated: 1.5*C + F/10 + 2*R with R the fatality rate F/A*100 (0 when
\* A is 0), in 10A-ths
C15_RiskWithRate(op) ==
    LET ds == C15_Records(op)
        C  == Len(ds)
        F  == sumField(ds, "fatalities")
        A  == sumField(ds, "aboard")
    IN  IF A = 0 THEN Frac(15 * C + F, 10)
        ELSE Frac(15 * C * A + F * A + 2000 * F, 10 * A)

\* C15 amended: 1.5*C + F/10 + 2*S with S the mean severityScore
C15_RiskWithSeverity(op) ==
    LET ds == C15_Records(op)
        C  == Len(ds)
        F  == sumField(ds, "fatalities")
        S  == sumField(ds, "severityScore")
    IN  Frac(150 * C * C + 10 * F * C + 2 * S, 100 * C)

\* the list is in descending order of weighted risk
C15_Descending ==
    \A i \in 1..(Len(rankedOperators) - 1) :
        ~FracLess(rankedOperators[i].weightedRiskScore,
                  rankedOperators[i + 1].weightedRiskScore)

\* C15 as stated: every listed operator has weighted risk 1.5*C + F/10 + 2*R
\* above the threshold, every operator above the threshold is listed, and the
\* list is in descending order.
C15_RiskFromFatalityRate ==
    riskPc = "rendered" =>
        /\ \A i \in 1..Len(rankedOperators) :
              /\ FracEq(rankedOperators[i].weightedRiskScore,
                        C15_RiskWithRate(rankedOperators[i].operator))
              /\ rankedOperators[i].weightedRiskScore.n
                    > 10 * rankedOperators[i].weightedRiskScore.d
        /\ C15_Descending

\* C15 amended: every listed operator is a named one (not "Unknown") with
\* weighted risk 1.5*C + F/10 + 2*S above 10, S being the mean severityScore
\* of its records; the list holds the named operators above 10, at most 15,
\* each once, in descending order of weighted risk.
C15_RiskFromSeverity ==
    riskPc = "rendered" =>
        /\ \A i \in 1..Len(rankedOperators) :
              /\ rankedOperators[i].operator \in C15_Operators \ {"Unknown"}
              /\ FracEq(rankedOperators[i].weightedRiskScore,
                        C15_RiskWithSeverity(rankedOperators[i].operator))
              /\ rankedOperators[i].weightedRiskScore.n
                    > 10 * rankedOperators[i].weightedRiskScore.d
              /\ \A j \in 1..Len(rankedOperators) :
                    rankedOperators[j].operator = rankedOperators[i].operator => j = i
        /\ Len(rankedOperators) <= 15
        /\ \A op \in C15_Operators \ {"Unknown"} :
              (C15_RiskWithSeverity(op).n > 10 * C15_RiskWithSeverity(op).d
                 /\ Len(rankedOperators) < 15)
                => \E i \in 1..Len(rankedOperators) : rankedOperators[i].operator = op
        /\ C15_Descending

\* C15 witness: two operators listed, of different risk, one operator left
\* out for a risk of 10 or less
C15_Witness ==
    /\ riskPc = "rendered"
    /\ Len(rankedOperators) = 2
    /\ FracLess(rankedOperators[2].weightedRiskScore, rankedOperators[1].weightedRiskScore)
    /\ \E op \in C15_Operators \ {"Unknown"} :
          \A i \in 1..Len(rankedOperators) : rankedOperators[i].operator # op


\* C16: the years of the filtered set, the numerically smallest and largest,
\* and the number of crashes of a year
C16_Years == { filteredData[i].year : i \in { j \in 1..Len(filteredData) :
                                                Has(filteredData[j], "year") } }

C16_FirstYear == CHOOSE y \in C16_Years : \A z \in C16_Years : y <= z

C16_LastYear == CHOOSE y \in C16_Years : \A z \in C16_Years : y >= z

C16_Count(y) ==
    Cardinality({ i \in 1..Len(filteredData) :
                    Has(filteredData[i], "year") /\ filteredData[i].year = y })

\* C16: lastCount + slope * i with slope = (lastCount - firstCount) /
\* (lastYear - firstYear)
C16_Projected(i) ==
    Frac(C16_Count(C16_LastYear) * (C16_LastYear - C16_FirstYear)
           + (C16_Count(C16_LastYear) - C16_Count(C16_FirstYear)) * i,
         C16_LastYear - C16_FirstYear)

\* C16: for a series of two or more distinct years the forecast has one
\* point for each i of the horizon (the chart's horizon is 10), the i-th being
\* (lastYear + i, lastCount + slope * i) with first and last the numerically
\* smallest and largest years; for 5 crashes in 2010 and 15 in 2020 the first
\* two points are (2021, 16) and (2022, 17).
C16_ForecastPoints ==
    (trendPc = "rendered" /\ Cardinality(C16_Years) >= 2) =>
        /\ Len(futureYears) = 10 /\ Len(futureCounts) = 10
        /\ \A i \in 1..10 :
              /\ futureYears[i] = C16_LastYear + i
              /\ futureCounts[i].k = "num"
              /\ FracEq(futureCounts[i], C16_Projected(i))
        /\ filteredData = DecadeRiseData =>
              /\ futureYears[1] = 2021 /\ FracEq(futureCounts[1], Frac(16, 1))
              /\ futureYears[2] = 2022 /\ FracEq(futureCounts[2], Frac(17, 1))

\* C17: the chart never raises and never divides by zero: with fewer than two
\* distinct years it makes no forecast, with two or more the divisor
\* lastYear - firstYear is not 0 and the slope is a finite number.
C17_ForecastNeverRaises ==
    /\ trendPc # "threw"
    /\ trendPc = "rendered" =>
          /\ Len(trendYears) < 2 => (futureYears = <<>> /\ futureCounts = <<>>)
          /\ Len(trendYears) >= 2 =>
                /\ trendYears[Len(trendYears)] - trendYears[1] # 0
                /\ trendSlope.k = "num"


\* C18: on an empty filtered set generateAIInsights returns an empty list of
\* insights and does not raise.
C18_EmptySetGivesNoInsights ==
    (insightPc \notin {"idle", "start"} /\ filteredData = <<>>) =>
        /\ insightPc = "returned"
        /\ insights = <<>>

\* C19: the totals of the raw records
C19_RawAboard == sumField(insightRaw, "Aboard")

C19_RawFatalities == sumField(insightRaw, "Fatalities")

\* C19: the overall survival rate is (sum of Aboard - sum of Fatalities) /
\* (sum of Aboard) * 100 over the Aboard and Fatalities of the raw records;
\* for the raw records (10, 20), (0, 5), (50, 50) it is 20.
C19_SurvivalRateFromRaw ==
    (insightPc \notin {"idle", "start"} /\ C19_RawAboard > 0) =>
        /\ survivalRate.k = "num"
        /\ FracEq(survivalRate,
                  Frac(100 * (C19_RawAboard - C19_RawFatalities), C19_RawAboard))
        /\ (C19_RawAboard = 75 /\ C19_RawFatalities = 60) => FracEq(survivalRate, Frac(20, 1))

\* C20: for a non-empty filtered set a deadliest incident is reported, it is
\* a record of the set with the maximum Fatalities, the first among those tied
\* at the maximum, also when every record has 0 fatalities.
C20_DeadliestIsFirstMaximum ==
    (insightPc \notin {"idle", "start"} /\ filteredData # <<>>) =>
        /\ insightPc = "returned"
        /\ \E i \in 1..Len(filteredData) :
              /\ deadliestCrash = filteredData[i]
              /\ \A j \in 1..Len(filteredData) :
                    /\ filteredData[j].Fatalities <= filteredData[i].Fatalities
                    /\ filteredData[j].Fatalities = filteredData[i].Fatalities => i <= j


\* C21: how often a record occurs in a sequence
C21_Occurrences(r, xs) == Cardinality({ i \in 1..Len(xs) : xs[i] = r })

C22_FirstSeen ==
    LET keys == mapToKeys(groupInput, groupKey)
        firsts == { i \in 1..Len(keys) : \A j \in 1..(i - 1) : ~SameKey(keys[j], keys[i]) }
        nth[n \in 1..Cardinality(firsts)] ==
            CHOOSE i \in firsts : Cardinality({ j \in firsts : j < i }) = n - 1
    IN  [ n \in 1..Cardinality(firsts) |-> keys[nth[n]] ]

\* C22: groupBy and countBy enumerate their keys in the order in which each
\* key first occurs in the input, integer keys such as year included.
C22_KeysInFirstSeenOrder ==
    /\ groupPc = "grouped" =>
          [ g \in 1..Len(groupResult) |-> groupResult[g].key ] = C22_FirstSeen
    /\ groupPc = "counted" =>
          [ g \in 1..Len(countResult) |-> countResult[g].key ] = C22_FirstSeen


\* C23: xs is a subsequence of ys
RECURSIVE C23_SubSeqOf(_, _)
C23_SubSeqOf(xs, ys) ==
    IF xs = <<>> THEN TRUE
    ELSE IF ys = <<>> THEN FALSE
    ELSE IF Head(xs) = Head(ys) THEN C23_SubSeqOf(Tail(xs), Tail(ys))
    ELSE C23_SubSeqOf(xs, Tail(ys))

C24_ValidCoordinates(crash) == ~crash.Latitude.nan /\ ~crash.Longitude.nan

\* C24: exactly the records with an absent or invalid latitude or longitude
\* have no marker, records with a coordinate equal to 0 have one, and every
\* record is counted in the record count, the fatality total and the per-year
\* and per-decade counts.
C24_OnlyInvalidCoordinatesUnmarked ==
    markPc = "rendered" =>
        /\ markerLayer = SelectSeq(crashData, C24_ValidCoordinates)
        /\ countText = Len(crashData)
        /\ fatalitiesText = sumField(crashData, "Fatalities")
        /\ sumSeq([ i \in 1..Len(decadeChart) |-> decadeChart[i].count ]) = Len(crashData)
        /\ sumSeq([ i \in 1..Len(timelineChart) |-> timelineChart[i].count ]) = Len(crashData)


\* C25: once loaded, the content and the order of AVIATION_DATA are unchanged
\* after any sequence of renders.
C25_SharedDataNotMutated ==
    gridPc # "idle" => AVIATION_DATA = aviationLoaded


\* C26: from a click on reset until the next click on apply the full
\* crashData is on display, also when a timer of applyFiltersDebounced was
\* pending at the click on reset.
C26_ResetStaysUntilApply ==
    (timerAtReset > 0 /\ nextTimer = timerAtReset) => shown = crashData


\* C27: the records the export listener hands to showExportDialog are the
\* records on display at the click, i.e. the result of the most recent apply
\* or reset (or of the load, before any), whatever edits of the inputs and
\* clicks on apply, reset and export came before
C27_ExportsWhatIsDisplayed ==
    exportDialog.clicks > 0 => exportDialog.data = exportDialog.displayed


\* C28: on the loaded dashboard, after any switchTab and applyFilters calls,
\* every chart of the active tab was last drawn from the current filteredData
\* and the header statistics were last computed from the current filteredData
C28_ActiveTabAndHeaderCurrent ==
    initPc = "ready" =>
        /\ headerFrom = DrawnFrom(filteredData)
        /\ \A i \in 1..Len(TabCharts(currentTab)) :
              plots[TabCharts(currentTab)[i]] = DrawnFrom(filteredData)


\* C29: for every yearly series of at most five periods renderAnomalyChart
\* flags no period, whatever the counts are
C29_FewPeriodsNeverFlagged ==
    (anomPc = "rendered" /\ Len(chartCounts) <= 5) => anomalies = <<>>


\* C30: the weather cache holds only texts built from successful responses;
\* a fetchWeather call for a key the cache holds when the call starts shows
\* the cached text and makes no request; a failed request leaves the cache
\* as it was
C30_CacheShortCircuits ==
    /\ \A key \in DOMAIN weatherCache :
          \E res \in WeatherResponses :
              /\ res.status = "ok" /\ Has(res.w, "main") /\ Has(res.w, "wind")
              /\ weatherCache[key] = weatherHtml(res.w)
    /\ (weatherLast.kind = "call" /\ weatherLast.key \in DOMAIN weatherLast.cache) =>
          /\ weatherEl[weatherLast.id] = weatherLast.cache[weatherLast.key]
          /\ requests = weatherLast.requests
          /\ \A call \in inFlight : call.n <= weatherLast.requests
          /\ weatherCache = weatherLast.cache
    /\ weatherLast.kind = "failed" => weatherCache = weatherLast.cache

\* C30 witness: a call for the coordinates of another marker's stored
\* response was answered from the cache, after a request of the run had failed
C30_Witness ==
    /\ weatherLast.kind = "call"
    /\ weatherLast.key \in DOMAIN weatherLast.cache
    /\ weatherEl[weatherLast.id] = weatherCache[weatherLast.key]
    /\ \E id \in DOMAIN weatherEl :
          id # weatherLast.id /\ weatherEl[id] = WeatherUnavailable

=============================================================================
